---- MODULE Spec2Model ----
(***************************************************************************)
(* DriveSafe-AI: the capture / analyze / alert orchestrator of the         *)
(* DrunkDetector React component.                                          *)
(*                                                                         *)
(* Two builds of the component are in the repository:                      *)
(*   "combined"  src/src/lib/utils.ts (camera + uploads + audio alerts)    *)
(*   "basic"     src/DrunkDetector/src/DrunkDetector.tsx (camera only)     *)
(*                                                                         *)
(* React state (useState) is captured by value by the closures of the      *)
(* render in which a handler was created; refs (useRef) and the DOM are    *)
(* shared.  A timer callback therefore keeps the isAnalyzing it captured   *)
(* when startMonitoring was invoked.  Time is in milliseconds.             *)
(***************************************************************************)
EXTENDS Integers, Sequences, FiniteSets, TLC

\* ------------------------------------------------------------------ bounds
MaxStarts == 1
MaxClicks == 3
IdleMs == 61000
HorizonMs == 12000
LongHorizonMs == 75000
MaxLongClicks == 2
MaxLatencyMs == 8000
PageLoadTime == 100000
SpeedHorizonMs == 4000
MaxPositions == 3
MaxLimitFetches == 2
MaxBothPositions == 1
MaxDigits == 2
MaxRestarts == 2
MaxOwnSaves == 21
MaxOtherSaves == 2

\* ------------------------------------------------------- program constants
WarmupMs == 3000
CooldownMs == 60000
ConfidenceThreshold == 30
DefaultConfidence == 75
PollMs == 1000
LimitRefreshMs == 30000
SpeedCooldownMs == 60000

Builds == {"combined", "basic"}

\* variant: the combined build keeps the retry of the basic build
maxAttempts_Two(b) == 2

maxAttempts(b) == IF b = "combined" THEN 1 ELSE 2

retryDelayMs(b) == IF b = "combined" THEN 5000 ELSE 2000

intervalMs(b) == IF b = "combined" THEN 10000 ELSE 30000

\* Math.random() * 1000 + 500 lies in [500, 1500)
JitterMs == {d \in {1000} : d >= 500 /\ d < 1500}

VARIABLES
  build,             \* which build of the component is running
  now,               \* Date.now()
  isMonitoring, isAnalyzing, currentResult, cameraError,
  uploadedVideo, uploadedImage, isVideoMode,
  srcObject,         \* videoRef.current.srcObject: 0 = null, i = stream of start i
  videoWidth,        \* TRUE iff videoRef.current.videoWidth > 0
  onloadedmetadata,  \* start whose resolver is videoRef.current.onloadedmetadata
  intervalRef,       \* 0 = null, i = interval created by start i
  lastAlertTimeRef,
  starts,            \* per startMonitoring invocation: position, closure, timers, stream
  analyses,          \* the running analyzeCurrentFrame / analyzeUploaded* invocations
  clicks,            \* user gestures so far
  out,               \* what the last step did to the outside world
  lastAlertFor,      \* history: the state announced by the last impairment audio alert
  sessionAudio,      \* history: an impairment audio alert went out since the loop was last armed
  currentSpeedMph,   \* in tenths of a mph; NullMph = null
  speedLimitMph,     \* in whole mph; NullMph = null
  lastSpeedAlertTimeRef, lastLimitFetchRef,
  lastGeoSampleRef,  \* NullSample or [lon, t], positions on the equator
  limitFetches,      \* fetchSpeedLimit calls awaiting their response
  positions,         \* position updates so far
  lastPos,           \* history: the position update handlePosition was last called with
  speedOut,          \* what the last step of the speed monitor did to the outside world
  content,           \* the message content handed to the parser
  returned,          \* what the parser returned for it, Pending before
  tag,               \* the maxspeed tag handed to parseMaxspeedToMph, as characters
  tagMph,            \* what parseMaxspeedToMph returned for it, Pending before
  detections,        \* the detections table, in order of insertion (_creationTime)
  listed             \* the caller and the rows of the last getDetections query

liveVars == <<build, now, isMonitoring, isAnalyzing, currentResult, cameraError,
              uploadedVideo, uploadedImage, isVideoMode, srcObject, videoWidth,
              onloadedmetadata, intervalRef, lastAlertTimeRef, starts, analyses, clicks, out>>

speedVars == <<currentSpeedMph, speedLimitMph, lastSpeedAlertTimeRef,
               lastLimitFetchRef, lastGeoSampleRef, limitFetches, positions, lastPos>>

parserVars == <<content, returned, tag, tagMph>>

dbVars == <<detections, listed>>

vars == <<liveVars, lastAlertFor, sessionAudio, speedVars, speedOut, parserVars, dbVars>>

StartIds == DOMAIN starts

\* ----------------------------------------------------------- DetectionResult
Null == [null |-> TRUE]

\* variant: the fallback record carries the default confidence
Fallback_Confident ==
  [isDrunk |-> FALSE, isSleepy |-> FALSE, isDistracted |-> FALSE, confidence |-> 75,
   indicators |-> <<"Analysis failed - unable to determine">>, state |-> "normal"]

Fallback ==
  [isDrunk |-> FALSE, isSleepy |-> FALSE, isDistracted |-> FALSE, confidence |-> 0,
   indicators |-> <<"Analysis failed - unable to determine">>, state |-> "normal"]

\* variant: the default replaces a field that is present too
Field_AlwaysDefault(parsed, f, d) == d

Field(parsed, f, d) == IF f \in DOMAIN parsed THEN parsed[f] ELSE d

Push(cond, s, label) == IF cond THEN Append(s, label) ELSE s

\* variant: "eyes closed" is pushed before "droopy eyelids"
Indicators_ClosedFirst(parsed) ==
  LET i1 == Push(Field(parsed, "eyesRed", FALSE), <<>>, "red eyes")
      i2 == Push(Field(parsed, "eyesGlassy", FALSE), i1, "glassy eyes")
      i3 == Push(Field(parsed, "eyesClosed", FALSE), i2, "eyes closed")
      i4 == Push(Field(parsed, "eyesHalfClosed", FALSE), i3, "droopy eyelids")
      i5 == Push(Field(parsed, "faceRed", FALSE), i4, "facial redness")
  IN  Push(Field(parsed, "lookingAway", FALSE), i5, "looking away")

Indicators(parsed) ==
  LET i1 == Push(Field(parsed, "eyesRed", FALSE), <<>>, "red eyes")
      i2 == Push(Field(parsed, "eyesGlassy", FALSE), i1, "glassy eyes")
      i3 == Push(Field(parsed, "eyesHalfClosed", FALSE), i2, "droopy eyelids")
      i4 == Push(Field(parsed, "eyesClosed", FALSE), i3, "eyes closed")
      i5 == Push(Field(parsed, "faceRed", FALSE), i4, "facial redness")
  IN  Push(Field(parsed, "lookingAway", FALSE), i5, "looking away")

\* variant: red or glassy eyes alone make a driver drunk
IsDrunk_EyesAlone(eyesRed, eyesGlassy, faceRed, eyesHalfClosed) == eyesRed \/ eyesGlassy

IsDrunk(eyesRed, eyesGlassy, faceRed, eyesHalfClosed) ==
  (eyesRed \/ eyesGlassy) /\ (faceRed \/ eyesHalfClosed)

\* variant: sleepy takes precedence over drunk
PrimaryState_SleepyFirst(isDrunk, isSleepy, isDistracted) ==
  IF isSleepy THEN "sleepy"
  ELSE IF isDrunk THEN "drunk"
  ELSE IF isDistracted THEN "distracted" ELSE "normal"

PrimaryState(isDrunk, isSleepy, isDistracted) ==
  IF isDrunk THEN "drunk"
  ELSE IF isSleepy THEN "sleepy"
  ELSE IF isDistracted THEN "distracted" ELSE "normal"

Classify(parsed) ==
  LET eyesRed        == Field(parsed, "eyesRed", FALSE)
      eyesGlassy     == Field(parsed, "eyesGlassy", FALSE)
      eyesHalfClosed == Field(parsed, "eyesHalfClosed", FALSE)
      eyesClosed     == Field(parsed, "eyesClosed", FALSE)
      faceRed        == Field(parsed, "faceRed", FALSE)
      lookingAway    == Field(parsed, "lookingAway", FALSE)
      isDrunk        == IsDrunk(eyesRed, eyesGlassy, faceRed, eyesHalfClosed)
      isSleepy       == eyesClosed \/ eyesHalfClosed
      isDistracted   == lookingAway
  IN  [isDrunk |-> isDrunk, isSleepy |-> isSleepy, isDistracted |-> isDistracted,
       confidence |-> Field(parsed, "confidence", DefaultConfidence),
       indicators |-> Indicators(parsed),
       state |-> PrimaryState(isDrunk, isSleepy, isDistracted)]

\* ------------------------------------------------------------ response parser
\* A message content is a text, a sequence of tokens: "FENCE" (three
\* backticks), "FENCEjson" (three backticks followed by json), "\n", " ",
\* "{", "}", "prose" (text without braces or backticks) and "body" (the
\* members of the JSON object obj).
IsSpace(c) == c \in {" ", "\n"}

RECURSIVE trimStart(_)
trimStart(v) == IF v # <<>> /\ IsSpace(Head(v)) THEN trimStart(Tail(v)) ELSE v

RECURSIVE trimEnd(_)
trimEnd(v) ==
  IF v # <<>> /\ IsSpace(v[Len(v)]) THEN trimEnd(SubSeq(v, 1, Len(v) - 1)) ELSE v

trim(v) == trimEnd(trimStart(v))

includes(v, w) ==
  \E j \in 1..(Len(v) - Len(w) + 1) : SubSeq(v, j, j + Len(w) - 1) = w

Positions(v, tok) == {j \in 1..Len(v) : v[j] = tok}

Min(S) == CHOOSE x \in S : \A y \in S : x <= y

Max(S) == CHOOSE x \in S : \A y \in S : x >= y

\* v.replace(/tok\n?/, ''): the first occurrence only
replaceFence(v, tok) ==
  IF Positions(v, tok) = {} THEN v
  ELSE LET i == Min(Positions(v, tok))
           n == IF i < Len(v) /\ v[i + 1] = "\n" THEN 2 ELSE 1
       IN  SubSeq(v, 1, i - 1) \o SubSeq(v, i + n, Len(v))

\* v.replace(/FENCE\n?$/, ''): a marker that ends the text
replaceFenceAtEnd(v) ==
  IF Len(v) >= 1 /\ v[Len(v)] = "FENCE" THEN SubSeq(v, 1, Len(v) - 1)
  ELSE IF Len(v) >= 2 /\ v[Len(v) - 1] = "FENCE" /\ v[Len(v)] = "\n"
  THEN SubSeq(v, 1, Len(v) - 2)
  ELSE v

cleanContent(text) ==
  LET t == trim(text)
  IN  IF includes(t, <<"FENCEjson">>)
      THEN trim(replaceFenceAtEnd(replaceFence(t, "FENCEjson")))
      ELSE IF includes(t, <<"FENCE">>)
      THEN trim(replaceFenceAtEnd(replaceFence(t, "FENCE")))
      ELSE t

\* clean.match(/\{[\s\S]*\}/): from the first "{" to the last "}"; <<>> is null
jsonMatch(clean) ==
  IF /\ Positions(clean, "{") # {} /\ Positions(clean, "}") # {}
     /\ Min(Positions(clean, "{")) < Max(Positions(clean, "}"))
  THEN SubSeq(clean, Min(Positions(clean, "{")), Max(Positions(clean, "}")))
  ELSE <<>>

SyntaxError == [syntaxError |-> TRUE]

EmptyObject == [j \in {} |-> FALSE]

NotSpace(c) == ~IsSpace(c)

\* JSON.parse of a span whose "body" token stands for the members of obj
JSONparse(span, obj) ==
  IF SelectSeq(span, NotSpace) = <<"{", "body", "}">> THEN obj
  ELSE IF SelectSeq(span, NotSpace) = <<"{", "}">> THEN EmptyObject
  ELSE SyntaxError

\* variant: a content that cannot be decoded raises
DecodeContent_Raises(c) ==
  IF jsonMatch(cleanContent(c.text)) = <<>> THEN [throws |-> "parse"]
  ELSE IF JSONparse(jsonMatch(cleanContent(c.text)), c.obj) = SyntaxError THEN [throws |-> "parse"]
  ELSE Classify(JSONparse(jsonMatch(cleanContent(c.text)), c.obj))

\* the try block of analyzeImageWithOpenAI and its catch
DecodeContent(c) ==
  IF jsonMatch(cleanContent(c.text)) = <<>> THEN Fallback
  ELSE IF JSONparse(jsonMatch(cleanContent(c.text)), c.obj) = SyntaxError THEN Fallback
  ELSE Classify(JSONparse(jsonMatch(cleanContent(c.text)), c.obj))

\* the texts a message content is drawn from, each with the name of its shape
Texts ==
  { [wrap |-> "bare", text |-> <<"{", "body", "}">>],
    [wrap |-> "spaces", text |-> <<"\n", "{", "\n", "body", "\n", "}", " ">>],
    [wrap |-> "fenceJson", text |-> <<"FENCEjson", "\n", "{", "body", "}", "\n", "FENCE">>],
    [wrap |-> "fence", text |-> <<"FENCE", "\n", "{", "body", "}", "\n", "FENCE">>],
    [wrap |-> "prose", text |-> <<"prose", " ", "{", "body", "}", " ", "prose">>],
    [wrap |-> "fenceProse",
     text |-> <<"prose", "\n", "FENCEjson", "\n", "{", "body", "}", "\n", "FENCE", "\n", "prose">>],
    [wrap |-> "proseBraces",
     text |-> <<"prose", " ", "{", "prose", "}", " ", "{", "body", "}">>],
    [wrap |-> "noBrace", text |-> <<"prose">>],
    [wrap |-> "fenceNoBrace", text |-> <<"FENCE", "\n", "prose", "\n", "FENCE">>],
    [wrap |-> "unclosed", text |-> <<"{", "body">>],
    [wrap |-> "closeFirst", text |-> <<"}", "prose", "{">>],
    [wrap |-> "notJson", text |-> <<"{", "prose", "}">>],
    [wrap |-> "emptyObject", text |-> <<"{", "}">>] }

\* the decoded objects: every combination of the six flags with a confidence,
\* and objects with absent fields
Objects ==
  [eyesRed : BOOLEAN, eyesGlassy : BOOLEAN, eyesHalfClosed : BOOLEAN, eyesClosed : BOOLEAN,
   faceRed : BOOLEAN, lookingAway : BOOLEAN, confidence : {-5, 30, 150}]
    \cup {[lookingAway |-> TRUE], [eyesRed |-> TRUE, faceRed |-> TRUE],
          [eyesHalfClosed |-> TRUE, confidence |-> 30], [confidence |-> 150]}

Contents == {[wrap |-> t.wrap, text |-> t.text, obj |-> o] : t \in Texts, o \in Objects}

NoMessage == [wrap |-> "none", text |-> <<>>, obj |-> EmptyObject]

Pending == [pending |-> TRUE]

NoTag == <<>>

\* ------------------------------------------------------- vision-API responses
\* A message content: absent, text with no decodable JSON object, or text
\* whose matched {...} span decodes to the object obj.
NoContent == [text |-> "none"]

Garbage == [text |-> "garbage"]

Json(obj) == [text |-> "json", obj |-> obj]

Payloads ==
  { [eyesRed |-> TRUE, confidence |-> 80],
    [eyesClosed |-> TRUE, confidence |-> 29],
    [lookingAway |-> TRUE, confidence |-> 30] }

Responses ==
  { [ok |-> FALSE, refusal |-> FALSE, content |-> NoContent] }
    \cup { [ok |-> TRUE, refusal |-> r, content |-> c] :
             r \in BOOLEAN,
             c \in {NoContent, Garbage, Json([lookingAway |-> TRUE, confidence |-> 30])} }
    \cup { [ok |-> TRUE, refusal |-> FALSE, content |-> Json(p)] : p \in Payloads }

Throws(why) == [throws |-> why]

Threw(r) == "throws" \in DOMAIN r

\* analyzeImageWithOpenAI, from the fetch result on
analyzeImageWithOpenAI(b, resp) ==
  IF ~resp.ok THEN Throws("transport")
  ELSE IF b = "combined" /\ resp.refusal THEN Throws("refusal")
  ELSE IF resp.content = NoContent THEN Throws("empty")
  ELSE IF resp.content.text = "json" THEN Classify(resp.content.obj)
  ELSE Fallback

\* ------------------------------------------------------------------ display
\* variant: the overlay does not look at the confidence
getAlertStyle_IgnoresConfidence(r) ==
  IF r = Null THEN ""
  ELSE IF r.isDrunk THEN "bg-red-500/30 border-red-600 border-4"
  ELSE IF r.isSleepy THEN "bg-orange-500/30 border-orange-500 border-4"
  ELSE IF r.isDistracted THEN "bg-yellow-500/30 border-yellow-500 border-4"
  ELSE ""

\* the overlay and border of the video for currentResult = r
getAlertStyle(r) ==
  IF r = Null THEN ""
  ELSE IF r.isDrunk /\ r.confidence >= ConfidenceThreshold
  THEN "bg-red-500/30 border-red-600 border-4"
  ELSE IF r.isSleepy /\ r.confidence >= ConfidenceThreshold
  THEN "bg-orange-500/30 border-orange-500 border-4"
  ELSE IF r.isDistracted /\ r.confidence >= ConfidenceThreshold
  THEN "bg-yellow-500/30 border-yellow-500 border-4"
  ELSE ""

\* the text of the banner for currentResult = r
getStateText(r) ==
  IF r = Null THEN ""
  ELSE IF r.isDrunk /\ r.confidence >= ConfidenceThreshold THEN "DRUNK DETECTED"
  ELSE IF r.isSleepy /\ r.confidence >= ConfidenceThreshold THEN "SLEEPY DETECTED"
  ELSE IF r.isDistracted /\ r.confidence >= ConfidenceThreshold THEN "DISTRACTED DETECTED"
  ELSE "NORMAL"

\* the colour of the banner text for currentResult = r
getStateColor(r) ==
  IF r = Null THEN "text-blue-600"
  ELSE IF r.isDrunk /\ r.confidence >= ConfidenceThreshold THEN "text-red-600"
  ELSE IF r.isSleepy /\ r.confidence >= ConfidenceThreshold THEN "text-orange-600"
  ELSE IF r.isDistracted /\ r.confidence >= ConfidenceThreshold THEN "text-yellow-600"
  ELSE "text-green-600"

\* variant: the confidence threshold is forgotten
Qualifies_AnyFlag(r) == r.isDrunk \/ r.isSleepy \/ r.isDistracted

Qualifies(r) ==
  (r.isDrunk \/ r.isSleepy \/ r.isDistracted) /\ r.confidence >= ConfidenceThreshold

\* --------------------------------------------------------------------- state
\* out: op names the step; fetch counts the requests it posted; notif, toast
\* and audio are the alert channels it used; attempts, why, refusal and
\* stopped describe the invocation of analyzeCurrentFrame it advanced; file
\* is the file handed to handleFileUpload
NoFile == [type |-> "none", big |-> FALSE]

Quiet == [op |-> "none", fetch |-> 0, notif |-> "none", toast |-> "none", audio |-> FALSE,
          attempts |-> 0, why |-> "none", refusal |-> FALSE, stopped |-> FALSE,
          file |-> NoFile]

\* null of currentSpeedMph and speedLimitMph (both are >= 0 otherwise)
NullMph == -1

NullSample == [null |-> TRUE]

\* speedOut: op names the step; query counts the map-data queries it issued;
\* notif, toast and audio are the overspeed alert channels it used
SpeedQuiet == [op |-> "none", query |-> 0, notif |-> "none", toast |-> FALSE, audio |-> FALSE]

Fresh == [pc |-> "unused", cap |-> FALSE, warmup |-> 0, interval |-> 0, live |-> FALSE]

\* the <video> element is rendered unless an uploaded image is shown
\* ------------------------------------------------------- detections backend
\* getAuthUserId(ctx): the id of the signed-in caller, NoUserId (null) otherwise
PageSize == 20
ImageIds == {"img1"}
NoUserId == "null"
UserIds == {"u1", "u2"}
Callers == UserIds \cup {NoUserId}

\* the listing before any query was made
NoQuery == [caller |-> NoUserId, rows |-> <<>>]

Mounted(uImg, vMode) == ~(uImg /\ ~vMode)

MountedWith(n) ==
  /\ build \in Builds
  /\ now = PageLoadTime
  /\ isMonitoring = FALSE
  /\ isAnalyzing = FALSE
  /\ currentResult = Null
  /\ cameraError = FALSE
  /\ uploadedVideo = FALSE
  /\ uploadedImage = FALSE
  /\ isVideoMode = FALSE
  /\ srcObject = 0
  /\ videoWidth = FALSE
  /\ onloadedmetadata = 0
  /\ intervalRef = 0
  /\ lastAlertTimeRef = 0
  /\ starts = [i \in 1..n |-> Fresh]
  /\ analyses = <<>>
  /\ clicks = 0
  /\ out = Quiet
  /\ lastAlertFor = "none"
  /\ sessionAudio = FALSE
  /\ currentSpeedMph = NullMph
  /\ speedLimitMph = NullMph
  /\ lastSpeedAlertTimeRef = 0
  /\ lastLimitFetchRef = 0
  /\ lastGeoSampleRef = NullSample
  /\ limitFetches = 0
  /\ positions = 0
  /\ lastPos = NullSample
  /\ speedOut = SpeedQuiet
  /\ detections = <<>>
  /\ listed = NoQuery

Mounted0 == MountedWith(MaxStarts)

Init ==
  Mounted0 /\ content = NoMessage /\ returned = Pending /\ tag = NoTag /\ tagMph = Pending

\* ------------------------------------------------------------------ helpers
VideoMounted == Mounted(uploadedImage, isVideoMode)

RemoveAt(s, k) == [j \in 1..(Len(s) - 1) |-> IF j < k THEN s[j] ELSE s[j + 1]]

Say(op) == [Quiet EXCEPT !.op = op]

TimerDue(i) ==
  \/ starts[i].warmup # 0 /\ starts[i].warmup <= now
  \/ starts[i].interval # 0 /\ starts[i].interval <= now

Timed(a) == a.pc \in {"jitter", "retry", "fetch"}

\* something is scheduled for the current instant
Urgent ==
  \/ \E i \in StartIds : TimerDue(i)
  \/ \E k \in 1..Len(analyses) : Timed(analyses[k]) /\ analyses[k].due <= now

\* the video element after a render: a new element when it is (re)mounted,
\* a reload when a new src is set, untouched otherwise
RenderedSrcObject(wasMounted, isMounted, so) ==
  IF wasMounted /\ isMounted THEN so ELSE 0

RenderedVideoWidth(wasMounted, isMounted, newSrc, vw) ==
  IF wasMounted /\ isMounted /\ ~newSrc THEN vw ELSE FALSE

RenderedHandler(wasMounted, isMounted, h) ==
  IF wasMounted /\ isMounted THEN h ELSE 0

\* stopMonitoring: the refs and DOM it touches
StoppedStarts ==
  LET s1 == IF intervalRef # 0 THEN [starts EXCEPT ![intervalRef].interval = 0] ELSE starts
  IN  IF VideoMounted /\ srcObject # 0 THEN [s1 EXCEPT ![srcObject].live = FALSE] ELSE s1

StoppedSrcObject == IF VideoMounted THEN 0 ELSE srcObject

StoppedVideoWidth == IF VideoMounted /\ srcObject # 0 THEN FALSE ELSE videoWidth

\* history: the invocations that were running when stopMonitoring ran
StoppedAnalyses == [k \in 1..Len(analyses) |-> [analyses[k] EXCEPT !.stopped = TRUE]]

\* --------------------------------------------------------------------- time
\* the instants at which something is scheduled
Scheduled ==
  {starts[i].warmup : i \in {j \in StartIds : starts[j].warmup # 0}}
    \cup {starts[i].interval : i \in {j \in StartIds : starts[j].interval # 0}}
    \cup {analyses[k].due : k \in {j \in 1..Len(analyses) : Timed(analyses[j])}}

Earliest(S) == CHOOSE t \in S : \A u \in S : t <= u

\* Time passes up to the next scheduled instant; with nothing scheduled it
\* passes in steps of IdleMs.  All other steps take no time.
TickUpTo(horizon) ==
  /\ ~Urgent
  /\ now' = IF Scheduled = {} THEN now + IdleMs ELSE Earliest(Scheduled)
  /\ now' <= PageLoadTime + horizon
  /\ out' = Quiet
  /\ UNCHANGED <<build, isMonitoring, isAnalyzing, currentResult, cameraError,
                 uploadedVideo, uploadedImage, isVideoMode, srcObject, videoWidth,
                 onloadedmetadata, intervalRef, lastAlertTimeRef, starts, analyses, clicks>>

Tick == TickUpTo(HorizonMs)

TickLong == TickUpTo(LongHorizonMs)

\* ------------------------------------------------------- analyzeCurrentFrame
\* Entry of analyzeCurrentFrame as seen by a closure that captured
\* isAnalyzing = cap; ready is videoRef.current?.videoWidth at the call.
AnalyzeCurrentFrame(cap, ready) ==
  IF cap \/ ~ready
  THEN /\ UNCHANGED <<isAnalyzing, analyses>>
       /\ out' = Quiet
  ELSE /\ isAnalyzing' = TRUE
       /\ IF build = "combined"
          THEN /\ \E d \in JitterMs :
                    analyses' = Append(analyses,
                      [kind |-> "live", pc |-> "jitter", due |-> now + d, attempts |-> 0,
                       stopped |-> FALSE])
               /\ out' = Quiet
          ELSE /\ analyses' = Append(analyses,
                      [kind |-> "live", pc |-> "fetch", due |-> now + MaxLatencyMs, attempts |-> 1,
                       stopped |-> FALSE])
               /\ out' = [Say("fetch") EXCEPT !.fetch = 1]

\* ----------------------------------------------------------- startMonitoring
FreeSlot(i) == starts[i].pc = "unused" /\ \A j \in StartIds : j < i => starts[j].pc # "unused"

StartMonitoringClick(i) ==
  /\ clicks < MaxClicks
  /\ clicks' = clicks + 1
  /\ ~isVideoMode /\ ~isMonitoring
  /\ FreeSlot(i)
  /\ cameraError' = FALSE
  /\ starts' = [starts EXCEPT ![i] = [Fresh EXCEPT !.pc = "getUserMedia", !.cap = isAnalyzing]]
  /\ IF uploadedVideo
     THEN /\ uploadedVideo' = FALSE
          /\ uploadedImage' = FALSE
          /\ isVideoMode' = FALSE
          /\ currentResult' = Null
          /\ srcObject' = RenderedSrcObject(VideoMounted, TRUE, srcObject)
          /\ videoWidth' = RenderedVideoWidth(VideoMounted, TRUE, FALSE, videoWidth)
          /\ onloadedmetadata' = RenderedHandler(VideoMounted, TRUE, onloadedmetadata)
     ELSE UNCHANGED <<uploadedVideo, uploadedImage, isVideoMode, currentResult,
                      srcObject, videoWidth, onloadedmetadata>>
  /\ out' = Quiet
  /\ UNCHANGED <<build, now, isMonitoring, isAnalyzing, intervalRef, lastAlertTimeRef, analyses>>

\* variant: the catch block reports nothing
GetUserMediaRejects_Silent(i) ==
  /\ starts[i].pc = "getUserMedia"
  /\ starts' = [starts EXCEPT ![i].pc = "failed"]
  /\ out' = Say("cameraDenied")
  /\ UNCHANGED <<build, clicks, now, isMonitoring, isAnalyzing, currentResult, uploadedVideo,
                 uploadedImage, isVideoMode, srcObject, videoWidth, onloadedmetadata,
                 intervalRef, lastAlertTimeRef, analyses, cameraError>>

GetUserMediaRejects(i) ==
  /\ starts[i].pc = "getUserMedia"
  /\ cameraError' = TRUE
  /\ starts' = [starts EXCEPT ![i].pc = "failed"]
  /\ out' = [Say("cameraDenied") EXCEPT !.toast = "cameraDenied"]
  /\ UNCHANGED <<build, clicks, now, isMonitoring, isAnalyzing, currentResult, uploadedVideo,
                 uploadedImage, isVideoMode, srcObject, videoWidth, onloadedmetadata,
                 intervalRef, lastAlertTimeRef, analyses>>

\* The tail of startMonitoring after its awaits: arm the loop.
Arm(i, st, ready) ==
  /\ isMonitoring' = TRUE
  /\ isVideoMode' = FALSE
  /\ intervalRef' = i
  /\ IF build = "combined"
     THEN /\ starts' = [st EXCEPT ![i].pc = "armed",
                                  ![i].warmup = now + WarmupMs,
                                  ![i].interval = now + intervalMs(build)]
          /\ out' = Quiet
          /\ UNCHANGED <<isAnalyzing, analyses>>
     ELSE /\ starts' = [st EXCEPT ![i].pc = "armed",
                                  ![i].interval = now + intervalMs(build)]
          /\ AnalyzeCurrentFrame(st[i].cap, ready)

GetUserMediaResolves(i) ==
  /\ starts[i].pc = "getUserMedia"
  /\ IF VideoMounted
     THEN /\ srcObject' = i
          /\ videoWidth' = FALSE
          /\ onloadedmetadata' = i
          /\ starts' = [starts EXCEPT ![i].pc = "loadedmetadata", ![i].live = TRUE]
          /\ out' = Quiet
          /\ UNCHANGED <<isMonitoring, isVideoMode, intervalRef, isAnalyzing, analyses>>
     ELSE /\ Arm(i, [starts EXCEPT ![i].live = TRUE], FALSE)
          /\ UNCHANGED <<srcObject, videoWidth, onloadedmetadata>>
  /\ UNCHANGED <<build, clicks, now, currentResult, cameraError, uploadedVideo, uploadedImage,
                 lastAlertTimeRef>>

\* The video element fires loadedmetadata and calls its onloadedmetadata handler.
LoadedMetadata ==
  /\ VideoMounted
  /\ ~videoWidth
  /\ srcObject # 0 \/ uploadedVideo
  /\ videoWidth' = TRUE
  /\ IF onloadedmetadata # 0 /\ starts[onloadedmetadata].pc = "loadedmetadata"
     THEN Arm(onloadedmetadata, starts, TRUE)
     ELSE /\ out' = Quiet
          /\ UNCHANGED <<isMonitoring, isVideoMode, intervalRef, starts, isAnalyzing, analyses>>
  /\ UNCHANGED <<build, clicks, now, currentResult, cameraError, uploadedVideo, uploadedImage,
                 srcObject, onloadedmetadata, lastAlertTimeRef>>

\* -------------------------------------------------------------------- timers
WarmupFires(i) ==
  /\ starts[i].warmup # 0 /\ starts[i].warmup <= now
  /\ starts' = [starts EXCEPT ![i].warmup = 0]
  /\ AnalyzeCurrentFrame(starts[i].cap, VideoMounted /\ videoWidth)
  /\ UNCHANGED <<build, clicks, now, isMonitoring, currentResult, cameraError, uploadedVideo,
                 uploadedImage, isVideoMode, srcObject, videoWidth, onloadedmetadata,
                 intervalRef, lastAlertTimeRef>>

IntervalFires(i) ==
  /\ starts[i].interval # 0 /\ starts[i].interval <= now
  /\ starts' = [starts EXCEPT ![i].interval = @ + intervalMs(build)]
  /\ AnalyzeCurrentFrame(starts[i].cap, VideoMounted /\ videoWidth)
  /\ UNCHANGED <<build, clicks, now, isMonitoring, currentResult, cameraError, uploadedVideo,
                 uploadedImage, isVideoMode, srcObject, videoWidth, onloadedmetadata,
                 intervalRef, lastAlertTimeRef>>

\* ------------------------------------------------------------ stopMonitoring
StopMonitoringClick ==
  /\ clicks < MaxClicks
  /\ clicks' = clicks + 1
  /\ ~isVideoMode /\ isMonitoring /\ ~isAnalyzing
  /\ starts' = StoppedStarts
  /\ intervalRef' = 0
  /\ srcObject' = StoppedSrcObject
  /\ videoWidth' = StoppedVideoWidth
  /\ isMonitoring' = FALSE
  /\ currentResult' = Null
  /\ analyses' = StoppedAnalyses
  /\ out' = Say("stop")
  /\ UNCHANGED <<build, now, isAnalyzing, cameraError, uploadedVideo, uploadedImage,
                 isVideoMode, onloadedmetadata, lastAlertTimeRef>>

\* ------------------------------------------------------------------ uploads
Files == {[type |-> "video", big |-> FALSE], [type |-> "video", big |-> TRUE],
          [type |-> "image", big |-> FALSE], [type |-> "image", big |-> TRUE],
          [type |-> "other", big |-> FALSE]}

\* variant: the size of the file is not looked at
Accepted_AnySize(file, type) == file.type = type

Accepted(file, type) == file.type = type /\ ~file.big

HandleFileUpload(file) ==
  /\ clicks < MaxClicks
  /\ clicks' = clicks + 1
  /\ build = "combined"
  /\ IF isMonitoring
     THEN /\ starts' = StoppedStarts
          /\ intervalRef' = 0
          /\ analyses' = StoppedAnalyses
     ELSE UNCHANGED <<starts, intervalRef, analyses>>
  /\ isMonitoring' = FALSE
  /\ currentResult' = Null
  /\ uploadedVideo' = Accepted(file, "video")
  /\ uploadedImage' = Accepted(file, "image")
  /\ isVideoMode' = IF Accepted(file, "video") THEN TRUE
                    ELSE IF Accepted(file, "image") THEN FALSE ELSE isVideoMode
  /\ LET so == IF isMonitoring THEN StoppedSrcObject ELSE srcObject
         vw == IF isMonitoring THEN StoppedVideoWidth ELSE videoWidth
         isMounted == Mounted(uploadedImage', isVideoMode')
     IN  /\ srcObject' = RenderedSrcObject(VideoMounted, isMounted, so)
         /\ videoWidth' = RenderedVideoWidth(VideoMounted, isMounted, uploadedVideo', vw)
         /\ onloadedmetadata' = RenderedHandler(VideoMounted, isMounted, onloadedmetadata)
  /\ out' = [Say(IF isMonitoring THEN "uploadStop" ELSE "upload") EXCEPT
               !.file = file,
               !.toast = IF Accepted(file, "video") \/ Accepted(file, "image")
                         THEN "uploaded" ELSE "rejected"]
  /\ UNCHANGED <<build, now, isAnalyzing, cameraError, lastAlertTimeRef>>

ClearUploadedVideoClick ==
  /\ clicks < MaxClicks
  /\ clicks' = clicks + 1
  /\ isVideoMode \/ uploadedImage
  /\ uploadedVideo' = FALSE
  /\ uploadedImage' = FALSE
  /\ isVideoMode' = FALSE
  /\ currentResult' = Null
  /\ srcObject' = RenderedSrcObject(VideoMounted, TRUE, srcObject)
  /\ videoWidth' = RenderedVideoWidth(VideoMounted, TRUE, FALSE, videoWidth)
  /\ onloadedmetadata' = RenderedHandler(VideoMounted, TRUE, onloadedmetadata)
  /\ out' = Quiet
  /\ UNCHANGED <<build, now, isMonitoring, isAnalyzing, cameraError, intervalRef,
                 lastAlertTimeRef, starts, analyses>>

AnalyzeUploadedVideoClick ==
  /\ clicks < MaxClicks
  /\ clicks' = clicks + 1
  /\ isVideoMode /\ uploadedVideo /\ ~isAnalyzing
  /\ VideoMounted
  /\ isAnalyzing' = TRUE
  /\ analyses' = Append(analyses,
       [kind |-> "video", pc |-> "seek", due |-> 0, attempts |-> 0, stopped |-> FALSE])
  /\ out' = Quiet
  /\ UNCHANGED <<build, now, isMonitoring, currentResult, cameraError, uploadedVideo,
                 uploadedImage, isVideoMode, srcObject, videoWidth, onloadedmetadata,
                 intervalRef, lastAlertTimeRef, starts>>

AnalyzeUploadedImageClick ==
  /\ clicks < MaxClicks
  /\ clicks' = clicks + 1
  /\ ~isVideoMode /\ uploadedImage /\ ~isAnalyzing
  /\ isAnalyzing' = TRUE
  /\ analyses' = Append(analyses,
       [kind |-> "image", pc |-> "load", due |-> 0, attempts |-> 0, stopped |-> FALSE])
  /\ out' = Quiet
  /\ UNCHANGED <<build, now, isMonitoring, currentResult, cameraError, uploadedVideo,
                 uploadedImage, isVideoMode, srcObject, videoWidth, onloadedmetadata,
                 intervalRef, lastAlertTimeRef, starts>>

\* ----------------------------------------------------- a running invocation
IssueFetch(k) ==
  /\ analyses' = [analyses EXCEPT ![k].pc = "fetch", ![k].due = now + MaxLatencyMs,
                                  ![k].attempts = @ + 1]
  /\ out' = [Say("fetch") EXCEPT !.fetch = 1]
  /\ UNCHANGED isAnalyzing

\* variant: the finally block does not reset isAnalyzing
Finish_KeepsAnalyzing(k, o) ==
  /\ analyses' = RemoveAt(analyses, k)
  /\ UNCHANGED isAnalyzing
  /\ out' = o

\* the invocation leaves through its finally block
Finish(k, o) ==
  /\ analyses' = RemoveAt(analyses, k)
  /\ isAnalyzing' = FALSE
  /\ out' = o

\* the jitter delay or the retry delay of analyzeCurrentFrame has elapsed
AnalysisWake(k) ==
  /\ analyses[k].pc \in {"jitter", "retry"}
  /\ analyses[k].due <= now
  /\ IF analyses[k].pc = "jitter" /\ ~VideoMounted
     THEN Finish(k, Say("captureFailed"))
     ELSE IssueFetch(k)
  /\ UNCHANGED <<build, clicks, now, isMonitoring, currentResult, cameraError, uploadedVideo,
                 uploadedImage, isVideoMode, srcObject, videoWidth, onloadedmetadata,
                 intervalRef, lastAlertTimeRef, starts>>

\* onseeked of the uploaded video, or onload / onerror of the uploaded image
MediaReady(k, ok) ==
  /\ \/ analyses[k].pc = "seek" /\ VideoMounted /\ videoWidth /\ ok
     \/ analyses[k].pc = "load"
  /\ IF ok
     THEN IssueFetch(k)
     ELSE Finish(k, [Say("uploadFailed") EXCEPT !.toast = "analysisFailed"])
  /\ UNCHANGED <<build, clicks, now, isMonitoring, currentResult, cameraError, uploadedVideo,
                 uploadedImage, isVideoMode, srcObject, videoWidth, onloadedmetadata,
                 intervalRef, lastAlertTimeRef, starts>>

NotifOutcomes == {"denied", "shown", "threw"}

\* variant: the catch block of a live tick shows an error toast
Event_ToastsFailure(op, a, resp, why) ==
  [Say(op) EXCEPT !.attempts = a.attempts, !.stopped = a.stopped,
                  !.refusal = resp.refusal, !.why = why,
                  !.toast = IF op = "liveFailed" THEN "analysisFailed" ELSE "none"]

Event(op, a, resp, why) ==
  [Say(op) EXCEPT !.attempts = a.attempts, !.stopped = a.stopped,
                  !.refusal = resp.refusal, !.why = why]

\* variant: the impairment audio alert is rate limited by the overspeed timestamp
Dispatch_SpeedCooldown(k, r, notif, ev) ==
  LET audio == build = "combined" /\ now - lastSpeedAlertTimeRef > CooldownMs
  IN  IF ~Qualifies(r)
      THEN /\ Finish(k, ev)
           /\ UNCHANGED lastAlertTimeRef
      ELSE IF notif = "threw"
      THEN /\ Finish(k, [ev EXCEPT !.notif = "threw"])
           /\ UNCHANGED lastAlertTimeRef
      ELSE /\ Finish(k, [ev EXCEPT
                           !.notif = IF notif = "shown" THEN "shown" ELSE "none",
                           !.toast = "impairment", !.audio = audio])
           /\ lastAlertTimeRef' = IF audio THEN now ELSE lastAlertTimeRef

\* the alert block of analyzeCurrentFrame for result r
Dispatch(k, r, notif, ev) ==
  LET audio == build = "combined" /\ now - lastAlertTimeRef > CooldownMs
  IN  IF ~Qualifies(r)
      THEN /\ Finish(k, ev)
           /\ UNCHANGED lastAlertTimeRef
      ELSE IF notif = "threw"
      THEN /\ Finish(k, [ev EXCEPT !.notif = "threw"])
           /\ UNCHANGED lastAlertTimeRef
      ELSE /\ Finish(k, [ev EXCEPT
                           !.notif = IF notif = "shown" THEN "shown" ELSE "none",
                           !.toast = "impairment", !.audio = audio])
           /\ lastAlertTimeRef' = IF audio THEN now ELSE lastAlertTimeRef

\* the fetch of analyzeImageWithOpenAI settles with resp
FetchCompletes(k, resp, notif) ==
  /\ analyses[k].pc = "fetch"
  /\ notif # "denied" => /\ analyses[k].kind = "live"
                         /\ ~Threw(analyzeImageWithOpenAI(build, resp))
                         /\ Qualifies(analyzeImageWithOpenAI(build, resp))
  /\ LET a == analyses[k]
         r == analyzeImageWithOpenAI(build, resp)
     IN  IF a.kind = "live"
         THEN IF Threw(r)
              THEN /\ IF a.attempts = maxAttempts(build)
                      THEN Finish(k, Event("liveFailed", a, resp, r.throws))
                      ELSE /\ analyses' = [analyses EXCEPT ![k].pc = "retry",
                                             ![k].due = now + retryDelayMs(build)]
                           /\ out' = Event("liveRetry", a, resp, r.throws)
                           /\ UNCHANGED isAnalyzing
                   /\ UNCHANGED <<currentResult, lastAlertTimeRef>>
              ELSE /\ currentResult' = r
                   /\ Dispatch(k, r, notif,
                        Event("liveResult", a, resp,
                              IF resp.content.text = "json" THEN "none" ELSE "parse"))
         ELSE /\ IF Threw(r)
                 THEN /\ Finish(k, [Say("uploadFailed") EXCEPT !.toast = "analysisFailed"])
                      /\ UNCHANGED currentResult
                 ELSE /\ Finish(k, [Say("uploadResult") EXCEPT
                             !.toast = IF Qualifies(r) THEN "impairment" ELSE "success"])
                      /\ currentResult' = r
              /\ UNCHANGED lastAlertTimeRef
  /\ UNCHANGED <<build, clicks, now, isMonitoring, cameraError, uploadedVideo, uploadedImage,
                 isVideoMode, srcObject, videoWidth, onloadedmetadata, intervalRef, starts>>

\* ------------------------------------------------------------- speed monitor
\* Math.round of a / b for a >= 0, b > 0
RoundDiv(a, b) == (2 * a + b) \div (2 * b)

\* A maxspeed tag is a sequence of characters.
Chars(str) ==
  CASE str = "50" -> <<"5", "0">>
    [] str = "30 mph" -> <<"3", "0", " ", "m", "p", "h">>
    [] str = "30 MPH" -> <<"3", "0", " ", "M", "P", "H">>
    [] str = " 50 " -> <<" ", "5", "0", " ">>
    [] str = "none" -> <<"n", "o", "n", "e">>
    [] str = "None" -> <<"N", "o", "n", "e">>
    [] str = "0" -> <<"0">>
    [] str = "walk" -> <<"w", "a", "l", "k">>
    [] OTHER -> <<>>

Digit(c) ==
  CASE c = "0" -> 0 [] c = "1" -> 1 [] c = "2" -> 2 [] c = "3" -> 3 [] c = "4" -> 4
    [] c = "5" -> 5 [] c = "6" -> 6 [] c = "7" -> 7 [] c = "8" -> 8 [] c = "9" -> 9
    [] OTHER -> -1

toLowerCase(v) ==
  [j \in DOMAIN v |->
     CASE v[j] = "M" -> "m" [] v[j] = "P" -> "p" [] v[j] = "H" -> "h" [] v[j] = "N" -> "n"
       [] OTHER -> v[j]]

\* parseFloat on a text without sign, decimal point or exponent: the value of
\* the longest prefix of digits, NaN when there is none
NaN == -1

RECURSIVE parseDigits(_, _)
parseDigits(v, acc) ==
  IF v # <<>> /\ Digit(Head(v)) >= 0
  THEN parseDigits(Tail(v), 10 * acc + Digit(Head(v)))
  ELSE acc

parseFloat(v) ==
  IF trimStart(v) # <<>> /\ Digit(Head(trimStart(v))) >= 0
  THEN parseDigits(trimStart(v), 0)
  ELSE NaN

\* kph * 0.621371, in millionths of a mph
kphToMph(kph) == kph * 621371

\* variant: a number without a unit is taken as mph
parseMaxspeedToMph_BareIsMph(value) ==
  LET v   == toLowerCase(trim(value))
      num == parseFloat(v)
  IN  IF v = <<"n", "o", "n", "e">> THEN NullMph
      ELSE IF num = NaN THEN NullMph
      ELSE num * 1000000

\* parseMaxspeedToMph: millionths of a mph, or NullMph for null
parseMaxspeedToMph(value) ==
  LET v   == toLowerCase(trim(value))
      num == parseFloat(v)
  IN  IF v = <<"n", "o", "n", "e">> THEN NullMph
      ELSE IF num = NaN THEN NullMph
      ELSE IF includes(v, <<"m", "p", "h">>) THEN num * 1000000
      ELSE kphToMph(num)

\* the numbers of at most MaxDigits digits a tag starts with, none included
RECURSIVE DigitStrings(_)
DigitStrings(n) ==
  IF n = 0 THEN {<<>>}
  ELSE DigitStrings(n - 1)
         \cup {Append(d, c) : d \in {e \in DigitStrings(n - 1) : Len(e) = n - 1},
                              c \in {"0", "3", "5"}}

Units ==
  { <<>>, <<"m", "p", "h">>, <<"M", "P", "H">>, <<"k", "m", "/", "h">>,
    <<"n", "o", "n", "e">>, <<"N", "o", "n", "e">>, <<"w", "a", "l", "k">> }

Blanks == {<<>>, <<" ">>}

\* the maxspeed tags parseMaxspeedToMph is applied to
Tags ==
  {lead \o d \o gap \o u \o trail :
     lead \in Blanks, d \in DigitStrings(MaxDigits), gap \in Blanks, u \in Units,
     trail \in Blanks}

\* the for loop of fetchSpeedLimit: the first element whose tag parses to a
\* truthy number; elements is a sequence of tags, "" for an element without one
RECURSIVE bestLimit(_)
bestLimit(elements) ==
  IF elements = <<>> THEN NullMph
  ELSE LET raw == Head(elements)
           mph == IF raw = "" THEN NullMph ELSE parseMaxspeedToMph(Chars(raw))
       IN  IF raw # "" /\ mph # NullMph /\ mph # 0 THEN mph
           ELSE bestLimit(Tail(elements))

\* what the map-data request can settle with
LimitResponses ==
  { [kind |-> "networkError"], [kind |-> "notOk"], [kind |-> "malformed"] }
    \cup { [kind |-> "elements", elements |-> e] :
             e \in { <<>>, <<"">>, <<"none">>, <<"0">>, <<"walk">>, <<"50">>, <<"30 mph">>,
                     <<"none", "30 MPH">>, <<" 50 ", "30 mph">>, <<"None">> } }

\* variant: without Math.max(0, ...)
DirectSpeedMph_Signed(mmps) == RoundDiv(mmps * 22369, 1000000)

\* mpsToMph(speed), rounded to a tenth and floored at zero; speed in mm/s
DirectSpeedMph(mmps) == IF mmps <= 0 THEN 0 ELSE RoundDiv(mmps * 22369, 1000000)

\* haversineDistanceMeters between two points of the equator, in mm; lon in
\* units of 0.0001 degree (R * pi / 180 * 0.0001 = 11.1195 m)
haversineDistanceMeters(lon1, lon2) ==
  (22239 * (IF lon2 >= lon1 THEN lon2 - lon1 ELSE lon1 - lon2)) \div 2

\* mpsToMph(dist / dt), rounded to a tenth; dist in mm, dt in ms
DerivedSpeedMph(dist, dtMs) == RoundDiv(dist * 22369, dtMs * 1000)

\* a position update: the direct speed reading (mm/s) if there is one, the
\* longitude and the timestamp of the fix
NoReading == [has |-> FALSE]

Reading(mmps) == [has |-> TRUE, mmps |-> mmps]

Readings == {NoReading, Reading(13411), Reading(14000), Reading(-1000)}

Longitudes == {0, 1}

\* the speedLimitMph seen by handlePosition: the closure of the mount effect
\* (dependency list []) keeps the value of the first render
handlePositionLimit == NullMph

DueForLookup(lastFetch, limit) ==
  now - lastFetch > LimitRefreshMs \/ handlePositionLimit = NullMph

\* variant: the overspeed test is not strict
Overspeed_OrEqual(speed, limit) ==
  speed # NullMph /\ limit # NullMph /\ speed >= 10 * limit

Overspeed(speed, limit) ==
  speed # NullMph /\ limit # NullMph /\ speed > 10 * limit

\* The overspeed effect, run after a render in which currentSpeedMph or
\* speedLimitMph changed; op and query describe the step that caused it.
OverspeedEffect(op, query, notif) ==
  IF /\ <<currentSpeedMph', speedLimitMph'>> # <<currentSpeedMph, speedLimitMph>>
     /\ Overspeed(currentSpeedMph', speedLimitMph')
     /\ now - lastSpeedAlertTimeRef > SpeedCooldownMs
  THEN /\ lastSpeedAlertTimeRef' = now
       /\ speedOut' = [op |-> op, query |-> query, notif |-> notif,
                       toast |-> TRUE, audio |-> TRUE]
  ELSE /\ notif = "denied"
       /\ UNCHANGED lastSpeedAlertTimeRef
       /\ speedOut' = [SpeedQuiet EXCEPT !.op = op, !.query = query]

\* handlePosition, called by watchPosition and by the 1 s getCurrentPosition poll
HandlePosition(reading, lon, timestamp, notif) ==
  /\ positions < MaxPositions /\ limitFetches < MaxLimitFetches
  /\ positions' = positions + 1
  /\ currentSpeedMph' =
       IF reading.has THEN DirectSpeedMph(reading.mmps)
       ELSE IF lastGeoSampleRef # NullSample /\ timestamp - lastGeoSampleRef.t > 0
       THEN DerivedSpeedMph(haversineDistanceMeters(lastGeoSampleRef.lon, lon),
                            timestamp - lastGeoSampleRef.t)
       ELSE currentSpeedMph
  /\ lastGeoSampleRef' = [lon |-> lon, t |-> timestamp]
  /\ lastPos' = [reading |-> reading, lon |-> lon, t |-> timestamp]
  /\ UNCHANGED speedLimitMph
  /\ IF DueForLookup(lastLimitFetchRef, speedLimitMph)
     THEN /\ lastLimitFetchRef' = now
          /\ limitFetches' = limitFetches + 1
          /\ OverspeedEffect("position", 1, notif)
     ELSE /\ UNCHANGED <<lastLimitFetchRef, limitFetches>>
          /\ OverspeedEffect("position", 0, notif)

\* variant: a lookup that finds no usable limit clears the known limit
FetchSpeedLimitSettles_ClearsWhenUntagged(resp, notif) ==
  /\ limitFetches > 0
  /\ limitFetches' = limitFetches - 1
  /\ speedLimitMph' =
       IF resp.kind = "elements"
       THEN (IF bestLimit(resp.elements) # NullMph
             THEN RoundDiv(bestLimit(resp.elements), 1000000) ELSE NullMph)
       ELSE speedLimitMph
  /\ UNCHANGED <<currentSpeedMph, lastLimitFetchRef, lastGeoSampleRef, positions, lastPos>>
  /\ OverspeedEffect(IF resp.kind # "elements" THEN "limitFailed"
                     ELSE IF bestLimit(resp.elements) = NullMph THEN "limitNone"
                     ELSE "limit", 0, notif)

\* variant: a failed lookup clears the known limit
FetchSpeedLimitSettles_ClearsOnFailure(resp, notif) ==
  /\ limitFetches > 0
  /\ limitFetches' = limitFetches - 1
  /\ speedLimitMph' =
       IF resp.kind = "elements" /\ bestLimit(resp.elements) # NullMph
       THEN RoundDiv(bestLimit(resp.elements), 1000000)
       ELSE IF resp.kind = "elements" THEN speedLimitMph ELSE NullMph
  /\ UNCHANGED <<currentSpeedMph, lastLimitFetchRef, lastGeoSampleRef, positions, lastPos>>
  /\ OverspeedEffect(IF resp.kind # "elements" THEN "limitFailed"
                     ELSE IF bestLimit(resp.elements) = NullMph THEN "limitNone"
                     ELSE "limit", 0, notif)

\* fetchSpeedLimit, from the settling of its fetch on; the step is named
\* "limitFailed" when the fetch rejects, answers non-2xx or has a body that
\* is not JSON, "limitNone" when no element carries a usable maxspeed
FetchSpeedLimitSettles(resp, notif) ==
  /\ limitFetches > 0
  /\ limitFetches' = limitFetches - 1
  /\ speedLimitMph' =
       IF resp.kind = "elements" /\ bestLimit(resp.elements) # NullMph
       THEN RoundDiv(bestLimit(resp.elements), 1000000)
       ELSE speedLimitMph
  /\ UNCHANGED <<currentSpeedMph, lastLimitFetchRef, lastGeoSampleRef, positions, lastPos>>
  /\ OverspeedEffect(IF resp.kind # "elements" THEN "limitFailed"
                     ELSE IF bestLimit(resp.elements) = NullMph THEN "limitNone"
                     ELSE "limit", 0, notif)

\* Time passes up to the next getCurrentPosition poll or the next scheduled
\* instant, whichever is first.
TickPoll ==
  /\ ~Urgent
  /\ now' = IF Scheduled # {} /\ Earliest(Scheduled) < now + PollMs
            THEN Earliest(Scheduled) ELSE now + PollMs
  /\ now' <= PageLoadTime + SpeedHorizonMs
  /\ out' = Quiet
  /\ UNCHANGED <<build, isMonitoring, isAnalyzing, currentResult, cameraError,
                 uploadedVideo, uploadedImage, isVideoMode, srcObject, videoWidth,
                 onloadedmetadata, intervalRef, lastAlertTimeRef, starts, analyses, clicks>>

\* a step of the capture loop: the speed monitor is not involved
LiveOnly ==
  /\ UNCHANGED <<speedVars, parserVars, dbVars>>
  /\ speedOut' = SpeedQuiet
  /\ lastAlertFor' = IF out'.audio THEN currentResult'.state ELSE lastAlertFor
  /\ sessionAudio' = IF ~isMonitoring /\ isMonitoring' THEN FALSE
                     ELSE IF out'.audio THEN TRUE ELSE sessionAudio

\* a step of the speed monitor: the capture loop is not involved
SpeedOnly ==
  /\ out' = Quiet
  /\ UNCHANGED <<build, now, isMonitoring, isAnalyzing, currentResult, cameraError,
                 uploadedVideo, uploadedImage, isVideoMode, srcObject, videoWidth,
                 onloadedmetadata, intervalRef, lastAlertTimeRef, starts, analyses, clicks,
                 lastAlertFor, sessionAudio, parserVars, dbVars>>

\* ------------------------------------------------------------- specification
Next ==
  \/ Tick /\ LiveOnly
  \/ \E i \in StartIds : StartMonitoringClick(i) /\ LiveOnly
  \/ \E i \in StartIds : GetUserMediaRejects(i) /\ LiveOnly
  \/ \E i \in StartIds : GetUserMediaResolves(i) /\ LiveOnly
  \/ LoadedMetadata /\ LiveOnly
  \/ \E i \in StartIds : WarmupFires(i) /\ LiveOnly
  \/ \E i \in StartIds : IntervalFires(i) /\ LiveOnly
  \/ StopMonitoringClick /\ LiveOnly
  \/ \E file \in Files : HandleFileUpload(file) /\ LiveOnly
  \/ ClearUploadedVideoClick /\ LiveOnly
  \/ AnalyzeUploadedVideoClick /\ LiveOnly
  \/ AnalyzeUploadedImageClick /\ LiveOnly
  \/ \E k \in 1..Len(analyses) : AnalysisWake(k) /\ LiveOnly
  \/ \E k \in 1..Len(analyses), ok \in BOOLEAN : MediaReady(k, ok) /\ LiveOnly
  \/ \E k \in 1..Len(analyses), resp \in Responses, notif \in NotifOutcomes :
       FetchCompletes(k, resp, notif) /\ LiveOnly

Spec == Init /\ [][Next]_vars

\* The live loop of the combined build over a longer stretch of time, for a
\* user who only starts and stops monitoring.
InitLong == Init /\ build = "combined"

NextLong ==
  \/ TickLong /\ LiveOnly
  \/ \E i \in StartIds : clicks < MaxLongClicks /\ StartMonitoringClick(i) /\ LiveOnly
  \/ \E i \in StartIds : GetUserMediaRejects(i) /\ LiveOnly
  \/ \E i \in StartIds : GetUserMediaResolves(i) /\ LiveOnly
  \/ LoadedMetadata /\ LiveOnly
  \/ \E i \in StartIds : WarmupFires(i) /\ LiveOnly
  \/ \E i \in StartIds : IntervalFires(i) /\ LiveOnly
  \/ clicks < MaxLongClicks /\ StopMonitoringClick /\ LiveOnly
  \/ \E k \in 1..Len(analyses) : AnalysisWake(k) /\ LiveOnly
  \/ \E k \in 1..Len(analyses), resp \in Responses, notif \in NotifOutcomes :
       FetchCompletes(k, resp, notif) /\ LiveOnly

SpecLong == InitLong /\ [][NextLong]_vars

\* The speed monitor alone: position updates arrive from watchPosition and from
\* the 1 s poll while the capture loop is idle.
Timestamps == {now, now - PollMs}

NextSpeed ==
  \/ TickPoll /\ LiveOnly
  \/ \E reading \in Readings, lon \in Longitudes, timestamp \in Timestamps,
        notif \in NotifOutcomes :
       HandlePosition(reading, lon, timestamp, notif) /\ SpeedOnly
  \/ \E resp \in LimitResponses, notif \in NotifOutcomes :
       FetchSpeedLimitSettles(resp, notif) /\ SpeedOnly

SpecSpeed == Init /\ [][NextSpeed]_vars

\* The capture loop of the combined build next to the speed monitor, for a
\* user who starts monitoring once and drives at 31.3 mph where 30 mph is
\* posted.
InitBoth == Init /\ build = "combined"

AlertingResponses ==
  { [ok |-> TRUE, refusal |-> FALSE, content |-> Json(p)] :
      p \in { [eyesRed |-> TRUE, faceRed |-> TRUE, confidence |-> 80],
              [eyesClosed |-> TRUE, confidence |-> 80],
              [confidence |-> 90] } }

NextBoth ==
  \/ Tick /\ LiveOnly
  \/ StartMonitoringClick(1) /\ LiveOnly
  \/ \E i \in StartIds : GetUserMediaResolves(i) /\ LiveOnly
  \/ LoadedMetadata /\ LiveOnly
  \/ \E i \in StartIds : WarmupFires(i) /\ LiveOnly
  \/ \E i \in StartIds : IntervalFires(i) /\ LiveOnly
  \/ \E k \in 1..Len(analyses) : AnalysisWake(k) /\ LiveOnly
  \/ \E k \in 1..Len(analyses), resp \in AlertingResponses, notif \in NotifOutcomes :
       FetchCompletes(k, resp, notif) /\ LiveOnly
  \/ \E reading \in {Reading(14000), Reading(13411)}, notif \in NotifOutcomes :
       positions < MaxBothPositions /\ HandlePosition(reading, 0, now, notif) /\ SpeedOnly
  \/ \E notif \in NotifOutcomes :
       FetchSpeedLimitSettles([kind |-> "elements", elements |-> <<"30 mph">>], notif)
         /\ SpeedOnly

SpecBoth == InitBoth /\ [][NextBoth]_vars

\* The capture loop of the combined build for a user who is granted the
\* camera and starts, stops and starts again while the driver looks impaired.
InitRestart ==
  /\ MountedWith(MaxRestarts) /\ build = "combined"
  /\ content = NoMessage /\ returned = Pending /\ tag = NoTag /\ tagMph = Pending

NextRestart ==
  \/ Tick /\ LiveOnly
  \/ \E i \in StartIds : StartMonitoringClick(i) /\ LiveOnly
  \/ \E i \in StartIds : GetUserMediaResolves(i) /\ LiveOnly
  \/ LoadedMetadata /\ LiveOnly
  \/ \E i \in StartIds : WarmupFires(i) /\ LiveOnly
  \/ \E i \in StartIds : IntervalFires(i) /\ LiveOnly
  \/ StopMonitoringClick /\ LiveOnly
  \/ \E k \in 1..Len(analyses) : AnalysisWake(k) /\ LiveOnly
  \/ \E k \in 1..Len(analyses), resp \in AlertingResponses, notif \in NotifOutcomes :
       FetchCompletes(k, resp, notif) /\ LiveOnly

SpecRestart == InitRestart /\ [][NextRestart]_vars

\* The parser applied to one message content.
InitParse ==
  Mounted0 /\ content \in Contents /\ returned = Pending /\ tag = NoTag /\ tagMph = Pending

ParseContent ==
  /\ returned = Pending
  /\ returned' = DecodeContent(content)
  /\ UNCHANGED <<liveVars, lastAlertFor, sessionAudio, speedVars, speedOut, content, tag, tagMph, dbVars>>

\* setCurrentResult(result) with the record the parser returned
SetCurrentResult ==
  /\ returned # Pending /\ currentResult = Null
  /\ currentResult' = returned
  /\ UNCHANGED <<build, now, isMonitoring, isAnalyzing, cameraError, uploadedVideo,
                 uploadedImage, isVideoMode, srcObject, videoWidth, onloadedmetadata,
                 intervalRef, lastAlertTimeRef, starts, analyses, clicks, out>>
  /\ UNCHANGED <<lastAlertFor, sessionAudio, speedVars, speedOut, parserVars, dbVars>>

NextParse == ParseContent \/ SetCurrentResult

SpecParse == InitParse /\ [][NextParse]_vars

\* parseMaxspeedToMph applied to one maxspeed tag.
InitMaxspeed ==
  Mounted0 /\ content = NoMessage /\ returned = Pending /\ tag \in Tags /\ tagMph = Pending

ParseMaxspeed ==
  /\ tagMph = Pending
  /\ tagMph' = [mph |-> parseMaxspeedToMph(tag)]
  /\ UNCHANGED <<liveVars, lastAlertFor, sessionAudio, speedVars, speedOut, content, returned, tag, dbVars>>

NextMaxspeed == ParseMaxspeed

SpecMaxspeed == InitMaxspeed /\ [][NextMaxspeed]_vars

\* ------------------------------------------------ loosely typed payloads
\* The classification of analyzeImageWithOpenAI for a decoded payload whose
\* fields hold any JSON value. A value is known by its type and by whether
\* it is truthy: true, false, "yes", "", 1, 0, null, and undefined for a
\* field that is absent.
JsTrue == [type |-> "boolean", truthy |-> TRUE]
JsFalse == [type |-> "boolean", truthy |-> FALSE]
Undefined == [type |-> "undefined", truthy |-> FALSE]

JsValues ==
  {JsTrue, JsFalse, Undefined, [type |-> "null", truthy |-> FALSE]}
    \cup [type : {"string", "number"}, truthy : BOOLEAN]

\* v ?? d
Coalesce(v, d) == IF v.type \in {"null", "undefined"} THEN d ELSE v

\* a || b and a && b
JsOr(a, b) == IF a.truthy THEN a ELSE b

JsAnd(a, b) == IF a.truthy THEN b ELSE a

ClassifyLoose(parsed) ==
  LET get(f)         == Coalesce(IF f \in DOMAIN parsed THEN parsed[f] ELSE Undefined, JsFalse)
      eyesRed        == get("eyesRed")
      eyesGlassy     == get("eyesGlassy")
      eyesHalfClosed == get("eyesHalfClosed")
      eyesClosed     == get("eyesClosed")
      faceRed        == get("faceRed")
      lookingAway    == get("lookingAway")
      isDrunk        == JsAnd(JsOr(eyesRed, eyesGlassy), JsOr(faceRed, eyesHalfClosed))
      isSleepy       == JsOr(eyesClosed, eyesHalfClosed)
      isDistracted   == lookingAway
      i1 == Push(eyesRed.truthy, <<>>, "red eyes")
      i2 == Push(eyesGlassy.truthy, i1, "glassy eyes")
      i3 == Push(eyesHalfClosed.truthy, i2, "droopy eyelids")
      i4 == Push(eyesClosed.truthy, i3, "eyes closed")
      i5 == Push(faceRed.truthy, i4, "facial redness")
  IN  [isDrunk |-> isDrunk, isSleepy |-> isSleepy, isDistracted |-> isDistracted,
       confidence |-> Field(parsed, "confidence", DefaultConfidence),
       indicators |-> Push(lookingAway.truthy, i5, "looking away"),
       state |-> PrimaryState(isDrunk.truthy, isSleepy.truthy, isDistracted.truthy)]

LoosePayloads ==
  [eyesRed : JsValues, eyesClosed : JsValues, faceRed : JsValues, lookingAway : JsValues]

InitLoose ==
  /\ Mounted0 /\ returned = Pending /\ tag = NoTag /\ tagMph = Pending
  /\ content \in {[wrap |-> "bare", text |-> <<"{", "body", "}">>, obj |-> o] : o \in LoosePayloads}

\* the lines after JSON.parse, for the payload content.obj
ClassifyParsed ==
  /\ returned = Pending
  /\ returned' = ClassifyLoose(content.obj)
  /\ UNCHANGED <<liveVars, lastAlertFor, sessionAudio, speedVars, speedOut, content, tag, tagMph, dbVars>>

NextLoose == ClassifyParsed

SpecLoose == InitLoose /\ [][NextLoose]_vars

\* ------------------------------------------------------- detections backend
\* The saveDetection mutation and the getDetections query of the basic
\* build's backend, called by two signed-in users and a signed-out caller.
\* variant: the query reads the whole table
withIndex_AllUsers(table, userId) == table

\* .withIndex("by_user", q => q.eq("userId", userId)): the rows of userId, oldest first
withIndex(table, userId) == SelectSeq(table, LAMBDA d : d.userId = userId)

\* .order("desc")
Desc(rows) == [i \in 1..Len(rows) |-> rows[Len(rows) + 1 - i]]

\* .take(n)
Take(rows, n) == SubSeq(rows, 1, IF Len(rows) < n THEN Len(rows) ELSE n)

\* ctx.storage.getUrl(imageId)
getUrl(imageId) == <<"url", imageId>>

getDetections(caller, table) ==
  IF caller = NoUserId THEN <<>>
  ELSE LET page == Take(Desc(withIndex(table, caller)), PageSize)
       IN  [i \in 1..Len(page) |->
              [_creationTime |-> page[i]._creationTime, userId |-> page[i].userId,
               imageId |-> page[i].imageId, timestamp |-> page[i].timestamp,
               imageUrl |-> getUrl(page[i].imageId)]]

\* saveDetection called by caller: throws for a signed-out caller, inserts otherwise
SaveDetection(caller, imageId) ==
  /\ caller # NoUserId =>
       Cardinality({i \in 1..Len(detections) : detections[i].userId = caller})
         < (IF caller = "u1" THEN MaxOwnSaves ELSE MaxOtherSaves)
  /\ detections' =
       IF caller = NoUserId THEN detections
       ELSE Append(detections, [_creationTime |-> Len(detections) + 1, userId |-> caller,
                                imageId |-> imageId, timestamp |-> now])
  /\ UNCHANGED <<liveVars, lastAlertFor, sessionAudio, speedVars, speedOut, parserVars, listed>>

\* getDetections called by caller
GetDetections(caller) ==
  /\ listed' = [caller |-> caller, rows |-> getDetections(caller, detections)]
  /\ UNCHANGED <<liveVars, lastAlertFor, sessionAudio, speedVars, speedOut, parserVars, detections>>

InitDetections == Init /\ build = "basic"

NextDetections ==
  \/ \E caller \in Callers, imageId \in ImageIds : SaveDetection(caller, imageId)
  \/ \E caller \in Callers : GetDetections(caller)

SpecDetections == InitDetections /\ [][NextDetections]_vars

\* ------------------------------------------------------------------- sanity
TypeOK ==
  /\ build \in Builds
  /\ isMonitoring \in BOOLEAN /\ isAnalyzing \in BOOLEAN
  /\ srcObject \in {0} \cup StartIds /\ intervalRef \in {0} \cup StartIds
  /\ uploadedImage => ~isVideoMode
  /\ build = "basic" => ~uploadedVideo /\ ~uploadedImage /\ ~isVideoMode


\* ==================================================================== claims
OnlyOneStart == \A i \in StartIds : i > 1 => starts[i].pc = "unused"

LiveOutstanding ==
  {k \in 1..Len(analyses) : analyses[k].kind = "live" /\ analyses[k].pc = "fetch"}

AlertSent == out.toast = "impairment" \/ out.notif \in {"shown", "threw"} \/ out.audio

\* C1: within one capture loop of the combined build at most one vision-API
\* request of the loop is outstanding at any time: a tick that fires while an
\* earlier analysis is in flight posts nothing.
C1_SingleFlight ==
  (build = "combined" /\ OnlyOneStart) => Cardinality(LiveOutstanding) <= 1

\* C2: the result of an analysis that was in flight when stopMonitoring ran is
\* discarded: when it completes currentResult is still null and no
\* notification, toast or audio alert goes out for it.
C2_DiscardedAfterStop ==
  (out.op = "liveResult" /\ out.stopped) =>
     (currentResult = Null /\ ~AlertSent)

\* C3: when stopMonitoring returns, the recurring timer of every earlier start
\* is cancelled, every acquired camera stream has its tracks stopped,
\* currentResult is null and isMonitoring is false.
C3_StopReleases ==
  out.op \in {"stop", "uploadStop"} =>
     /\ intervalRef = 0
     /\ \A i \in StartIds : starts[i].interval = 0 /\ ~starts[i].live
     /\ currentResult = Null
     /\ ~isMonitoring

\* C4: live monitoring and uploaded media never coexist.
C4_SourcesExclusive ==
  ~(isMonitoring /\ (uploadedVideo \/ uploadedImage))

\* C5: a qualifying live detection produces the audio/spoken alert exactly
\* when more than 60 seconds have passed since the last audio alert (so only
\* the first of two detections 10 s apart sounds, and both of two detections
\* 61 s apart do).
C5_AudioCooldown ==
  [][ (/\ out'.op = "liveResult"
       /\ currentResult'.confidence >= 30
       /\ (currentResult'.isDrunk \/ currentResult'.isSleepy \/ currentResult'.isDistracted))
      => (out'.audio <=> (now - lastAlertTimeRef > 60000)) ]_vars

\* C6: an impairment alert on any channel goes out only for a result with
\* confidence >= 30 and at least one of isDrunk, isSleepy, isDistracted; the
\* parse-failure fallback record never triggers one.
C6_AlertsOnlyWhenQualifying ==
  AlertSent =>
     /\ currentResult # Null
     /\ currentResult.confidence >= 30
     /\ (currentResult.isDrunk \/ currentResult.isSleepy \/ currentResult.isDistracted)
     /\ currentResult.indicators # <<"Analysis failed - unable to determine">>

C6_Witness ==
  /\ out.op = "liveResult" /\ out.toast = "impairment" /\ out.audio
  /\ currentResult.confidence = 30

\* C7 as stated: in the combined build a tick whose call fails with a
\* transport error gives up only after a second attempt.
C7_RetriesOnce ==
  (build = "combined" /\ out.op = "liveFailed" /\ out.why = "transport") => out.attempts = 2

\* C7 amended: in the combined build a live tick makes a single attempt and
\* gives up at once when it fails; only the basic build retries, once, after
\* 2 seconds.
C7_SingleAttempt ==
  /\ out.op = "liveFailed" => out.attempts = (IF build = "combined" THEN 1 ELSE 2)
  /\ out.op = "liveRetry" =>
        /\ build = "basic" /\ out.attempts = 1
        /\ \E k \in 1..Len(analyses) :
              analyses[k].pc = "retry" /\ analyses[k].due = now + 2000

C7_Witness ==
  build = "combined" /\ out.op = "liveFailed" /\ out.why = "transport" /\ out.attempts = 1

\* C8: a live tick all of whose attempts threw leaves currentResult as it
\* was, dispatches no alert, shows no toast and resets isAnalyzing.
C8_FailedTickFrame ==
  [][ /\ out'.op = "liveFailed" =>
           /\ currentResult' = currentResult
           /\ lastAlertTimeRef' = lastAlertTimeRef
           /\ out'.toast = "none" /\ out'.notif = "none" /\ ~out'.audio
           /\ isAnalyzing' = FALSE
      /\ out'.op \in {"fetch", "liveRetry"} => currentResult' = currentResult ]_vars

C8_Witness ==
  out.op = "liveFailed" /\ currentResult # Null /\ ~isAnalyzing

\* C9 as stated: after any failing tick (transport error, refusal or parse
\* failure) currentResult is what it was before.
C9_KeepsLastState ==
  [][ (out'.op = "liveFailed" \/ (out'.op = "liveResult" /\ out'.why = "parse"))
      => currentResult' = currentResult ]_vars

\* C9 amended: a tick that fails with a thrown error (transport error,
\* refusal, empty response) keeps currentResult; a tick whose model output
\* cannot be parsed replaces currentResult by the fixed zero-confidence
\* fallback record and sends no alert.
C9_KeepsOrFallsBack ==
  [][ /\ out'.op = "liveFailed" => currentResult' = currentResult
      /\ (out'.op = "liveResult" /\ out'.why = "parse") =>
           /\ currentResult' =
                [isDrunk |-> FALSE, isSleepy |-> FALSE, isDistracted |-> FALSE,
                 confidence |-> 0,
                 indicators |-> <<"Analysis failed - unable to determine">>,
                 state |-> "normal"]
           /\ out'.toast = "none" /\ out'.notif = "none" /\ ~out'.audio ]_vars

C9_Witness ==
  /\ out.op = "liveResult" /\ out.why = "parse"
  /\ currentResult.confidence = 0
  /\ lastAlertTimeRef # 0 /\ clicks = 1

\* C10: a response carrying a refusal ends the tick as a failure: it is
\* neither retried nor read as a result, in every build.
C10_RefusalTerminal ==
  (out.refusal /\ out.op \in {"liveResult", "liveRetry", "liveFailed"}) =>
     out.op = "liveFailed"

\* C11: the alert channels of the impairment dispatch are best-effort: when
\* constructing the system notification throws, the toast (and the audio
\* alert, when the cooldown has elapsed) still goes out for that qualifying
\* detection.
C11_BestEffort ==
  (out.op = "liveResult" /\ out.notif = "threw") => out.toast = "impairment"

\* C12: once a speed limit is known, a position update queries the map-data
\* source only when more than 30 seconds have passed since the previous
\* query.
C12_RateLimited ==
  [][ (speedOut'.query = 1 /\ speedLimitMph # -1) => now - lastLimitFetchRef > 30000 ]_vars

\* C13: an overspeed alert is dispatched only in a state where the current
\* speed and the limit are both known and the speed is strictly greater than
\* the limit (currentSpeedMph is in tenths of a mph).
C13_OverspeedOnlyAboveLimit ==
  (speedOut.toast \/ speedOut.audio \/ speedOut.notif \in {"shown", "threw"}) =>
     /\ currentSpeedMph # -1 /\ speedLimitMph # -1
     /\ currentSpeedMph > 10 * speedLimitMph

C13_Witness ==
  speedOut.toast /\ speedOut.audio /\ speedLimitMph = 31 /\ currentSpeedMph = 313

\* C14: one 60 s cooldown is shared by all impairment types, and it is
\* independent of the overspeed cooldown: an impairment audio alert goes out
\* exactly when the dispatch reaches it more than 60 s after the last
\* impairment audio alert of any type, whatever the overspeed alerts did; an
\* overspeed alert goes out exactly when the speed newly exceeds the limit
\* more than 60 s after the last overspeed alert, whatever the impairment
\* alerts did; neither touches the other's timestamp.
C14_SharedIndependentCooldowns ==
  [][ /\ out'.audio => (now - lastAlertTimeRef > 60000 /\ lastAlertTimeRef' = now)
      /\ (out'.op = "liveResult" /\ out'.toast = "impairment"
            /\ now - lastAlertTimeRef > 60000) => out'.audio
      /\ out'.op # "none" => lastSpeedAlertTimeRef' = lastSpeedAlertTimeRef
      /\ speedOut'.audio =>
            (now - lastSpeedAlertTimeRef > 60000 /\ lastSpeedAlertTimeRef' = now)
      /\ (/\ speedOut'.op # "none"
          /\ <<currentSpeedMph', speedLimitMph'>> # <<currentSpeedMph, speedLimitMph>>
          /\ currentSpeedMph' # -1 /\ speedLimitMph' # -1
          /\ currentSpeedMph' > 10 * speedLimitMph'
          /\ now - lastSpeedAlertTimeRef > 60000) => speedOut'.audio
      /\ speedOut'.op # "none" => lastAlertTimeRef' = lastAlertTimeRef ]_vars

C14_Witness ==
  /\ out.op = "liveResult" /\ out.toast = "impairment" /\ ~out.audio
  /\ currentResult.state = "sleepy" /\ lastAlertFor = "drunk"
  /\ lastSpeedAlertTimeRef > lastAlertTimeRef

\* the parser returned a record decoded from an object that carries all six
\* boolean flags
Produced ==
  /\ returned # Pending
  /\ content.wrap \in {"bare", "spaces", "fenceJson", "fence", "prose", "fenceProse"}
  /\ {"eyesRed", "eyesGlassy", "eyesHalfClosed", "eyesClosed", "faceRed", "lookingAway"}
       \subseteq DOMAIN content.obj

\* C15: for every combination of the six flags the state is one of drunk,
\* sleepy, distracted, normal and follows the precedence drunk, then sleepy,
\* then distracted, else normal.
C15_StatePrecedence ==
  Produced =>
     /\ returned.state \in {"drunk", "sleepy", "distracted", "normal"}
     /\ returned.state = (IF returned.isDrunk THEN "drunk"
                          ELSE IF returned.isSleepy THEN "sleepy"
                          ELSE IF returned.isDistracted THEN "distracted"
                          ELSE "normal")

C15_Witness ==
  Produced /\ returned.isDrunk /\ returned.isSleepy /\ returned.state = "drunk"

\* C16: for every combination of the six flags isDrunk = (eyesRed or
\* eyesGlassy) and (faceRed or eyesHalfClosed), isSleepy = eyesClosed or
\* eyesHalfClosed, isDistracted = lookingAway; eyesRed alone gives
\* isDrunk = false, state normal and indicators <<"red eyes">>.
C16_DerivedFlags ==
  Produced =>
     LET o == content.obj
     IN  /\ returned.isDrunk = ((o.eyesRed \/ o.eyesGlassy) /\ (o.faceRed \/ o.eyesHalfClosed))
         /\ returned.isSleepy = (o.eyesClosed \/ o.eyesHalfClosed)
         /\ returned.isDistracted = o.lookingAway
         /\ (/\ o.eyesRed /\ ~o.eyesGlassy /\ ~o.eyesHalfClosed
             /\ ~o.eyesClosed /\ ~o.faceRed /\ ~o.lookingAway)
              => (/\ ~returned.isDrunk /\ returned.state = "normal"
                  /\ returned.indicators = <<"red eyes">>)

C16_Witness ==
  /\ Produced /\ content.wrap = "fenceJson"
  /\ content.obj.eyesRed /\ ~content.obj.eyesGlassy /\ ~content.obj.eyesHalfClosed
  /\ ~content.obj.eyesClosed /\ ~content.obj.faceRed /\ ~content.obj.lookingAway
  /\ returned.state = "normal" /\ returned.indicators = <<"red eyes">>

\* C17: the indicators list is empty iff all six flags are false, and it
\* holds one label per true flag in the order red eyes, glassy eyes, droopy
\* eyelids, eyes closed, facial redness, looking away.
C17_Indicators ==
  Produced =>
     LET o == content.obj
         Labels == << <<"eyesRed", "red eyes">>, <<"eyesGlassy", "glassy eyes">>,
                      <<"eyesHalfClosed", "droopy eyelids">>, <<"eyesClosed", "eyes closed">>,
                      <<"faceRed", "facial redness">>, <<"lookingAway", "looking away">> >>
         Set(x) == o[x[1]]
         chosen == SelectSeq(Labels, Set)
     IN  /\ (returned.indicators = <<>>) <=>
               (/\ ~o.eyesRed /\ ~o.eyesGlassy /\ ~o.eyesHalfClosed
                /\ ~o.eyesClosed /\ ~o.faceRed /\ ~o.lookingAway)
         /\ returned.indicators = [j \in 1..Len(chosen) |-> chosen[j][2]]

C17_Witness ==
  Produced /\ returned.indicators = <<"droopy eyelids", "eyes closed", "looking away">>

\* C18: every record the parser returns has a confidence within [0, 100],
\* whatever confidence the decoded payload carries.
C18_ConfidenceInRange ==
  returned # Pending => (returned.confidence >= 0 /\ returned.confidence <= 100)

\* C19: a content with no {...} span, or whose span does not decode, makes
\* the parser return the fixed fallback record instead of raising.
C19_FallbackOnUndecodable ==
  (/\ returned # Pending
   /\ content.wrap \in {"noBrace", "fenceNoBrace", "unclosed", "closeFirst", "notJson"}) =>
     returned = [isDrunk |-> FALSE, isSleepy |-> FALSE, isDistracted |-> FALSE,
                 confidence |-> 0,
                 indicators |-> <<"Analysis failed - unable to determine">>,
                 state |-> "normal"]

C19_Witness ==
  returned # Pending /\ content.wrap = "notJson" /\ returned.confidence = 0

\* C20: a valid JSON object wrapped in fence markers and/or surrounded by
\* prose decodes to the same record as the bare object.
C20_WrappingTolerated ==
  (/\ returned # Pending
   /\ content.wrap \in {"fenceJson", "fence", "prose", "fenceProse", "proseBraces"}) =>
     returned = DecodeContent([content EXCEPT !.text = <<"{", "body", "}">>])

\* the object JSON.parse gave for a content that decodes
Decodes ==
  /\ returned # Pending
  /\ content.wrap \in {"bare", "spaces", "fenceJson", "fence", "prose", "fenceProse", "emptyObject"}

ParsedObject == IF content.wrap = "emptyObject" THEN EmptyObject ELSE content.obj

\* C21: a flag absent from the decoded payload counts as false, an absent
\* confidence gives 75, and a present confidence is passed through unchanged.
C21_Defaults ==
  Decodes =>
     LET o == ParsedObject
         eyesRed        == IF "eyesRed" \in DOMAIN o THEN o.eyesRed ELSE FALSE
         eyesGlassy     == IF "eyesGlassy" \in DOMAIN o THEN o.eyesGlassy ELSE FALSE
         eyesHalfClosed == IF "eyesHalfClosed" \in DOMAIN o THEN o.eyesHalfClosed ELSE FALSE
         eyesClosed     == IF "eyesClosed" \in DOMAIN o THEN o.eyesClosed ELSE FALSE
         faceRed        == IF "faceRed" \in DOMAIN o THEN o.faceRed ELSE FALSE
         lookingAway    == IF "lookingAway" \in DOMAIN o THEN o.lookingAway ELSE FALSE
     IN  /\ returned.isDrunk = ((eyesRed \/ eyesGlassy) /\ (faceRed \/ eyesHalfClosed))
         /\ returned.isSleepy = (eyesClosed \/ eyesHalfClosed)
         /\ returned.isDistracted = lookingAway
         /\ Len(returned.indicators) =
              Cardinality({f \in {"eyesRed", "eyesGlassy", "eyesHalfClosed", "eyesClosed",
                                  "faceRed", "lookingAway"} : f \in DOMAIN o /\ o[f]})
         /\ returned.confidence = (IF "confidence" \in DOMAIN o THEN o.confidence ELSE 75)

C21_Witness ==
  /\ Decodes /\ content.obj = [eyesRed |-> TRUE, faceRed |-> TRUE] /\ content.wrap = "fence"
  /\ returned.state = "drunk" /\ returned.confidence = 75
  /\ returned.indicators = <<"red eyes", "facial redness">>

\* C22: when getUserMedia rejects, the step sets cameraError and shows the
\* error toast, and from then on (for as long as it is the only start made)
\* the start is not armed: isMonitoring is false, no warm-up timeout and no
\* interval is scheduled, intervalRef is empty and no analysis exists or
\* issues a request.
C22_FailedStartDoesNotArm ==
  [][ \A i \in DOMAIN starts :
        /\ (starts[i].pc = "getUserMedia" /\ starts'[i].pc = "failed") =>
              (cameraError' /\ out'.toast = "cameraDenied"
               /\ starts'[i].warmup = 0 /\ starts'[i].interval = 0)
        /\ (/\ starts'[i].pc = "failed"
            /\ \A j \in DOMAIN starts : j # i => starts'[j].pc = "unused") =>
              /\ ~isMonitoring' /\ cameraError'
              /\ starts'[i].warmup = 0 /\ starts'[i].interval = 0
              /\ intervalRef' = 0
              /\ analyses' = <<>> /\ ~isAnalyzing' /\ out'.fetch = 0 ]_vars

C22_Witness ==
  /\ starts[1].pc = "failed" /\ cameraError /\ ~isMonitoring
  /\ now >= 100000 + 61000 /\ analyses = <<>>

\* a step in which the warm-up timeout or the interval of start i fires
WarmupFired(i) == starts[i].warmup # 0 /\ starts'[i].warmup = 0
IntervalFired(i) ==
  starts[i].interval # 0 /\ starts'[i].interval # 0 /\ starts'[i].interval # starts[i].interval

\* the timers of start i are set 3 s and 10 s after arming, fire at the
\* instant they are set for, the interval is re-armed 10 s later, and no
\* step of an analysis moves them
TickTimesFixed(i) ==
  /\ (starts[i].pc # "armed" /\ starts'[i].pc = "armed") =>
        (starts'[i].warmup = now + 3000 /\ starts'[i].interval = now + 10000)
  /\ WarmupFired(i) => now = starts[i].warmup
  /\ IntervalFired(i) =>
        (now = starts[i].interval /\ starts'[i].interval = starts[i].interval + 10000)
  /\ (/\ starts[i].pc = "armed" /\ clicks' = clicks /\ analyses' # analyses
      /\ ~WarmupFired(i) /\ ~IntervalFired(i)) =>
        (starts'[i].warmup = starts[i].warmup /\ starts'[i].interval = starts[i].interval)

TickTimes == [][\A i \in DOMAIN starts : TickTimesFixed(i)]_vars

\* C23: in the combined build the first tick fires 3 s after arming and the
\* recurring ticks every 10 s after arming, whatever the duration of an
\* analysis, and a tick that fires while an analysis is in flight is
\* suppressed (it starts no analysis).
C23_TimerDrivenTicks ==
  [][ \A i \in DOMAIN starts :
        /\ TickTimesFixed(i)
        /\ ((WarmupFired(i) \/ IntervalFired(i)) /\ isAnalyzing) =>
              (analyses' = analyses /\ out'.fetch = 0) ]_vars

\* C24: a speed-limit lookup that fails (network error, non-2xx answer,
\* malformed body) leaves speedLimitMph, the speed and the last sample as they
\* were and shows nothing to the user: no toast, no notification, no sound,
\* no error banner.
C24_LookupFailureSwallowed ==
  [][ speedOut'.op = "limitFailed" =>
        /\ speedLimitMph' = speedLimitMph
        /\ currentSpeedMph' = currentSpeedMph
        /\ lastGeoSampleRef' = lastGeoSampleRef
        /\ ~speedOut'.toast /\ ~speedOut'.audio /\ speedOut'.notif = "none"
        /\ out'.toast = "none" /\ cameraError' = cameraError ]_vars

\* a second lookup failed after the first one had found 50 km/h: 31 is kept
C24_Witness ==
  speedOut.op = "limitFailed" /\ speedLimitMph = 31 /\ positions >= 2

\* the tag without any blank
Squeezed == SelectSeq(tag, NotSpace)

\* C25: parseMaxspeedToMph gives about 31.07 for "50" (km/h converted to
\* mph), 30 for "30 mph", null for "none", and null for every tag that does
\* not start with a number; results are in millionths of a mph, -1 is null.
C25_ParseMaxspeed ==
  tagMph # Pending =>
     /\ tag = <<"5", "0">> => (tagMph.mph >= 31065000 /\ tagMph.mph < 31075000)
     /\ tag = <<"3", "0", " ", "m", "p", "h">> => tagMph.mph = 30000000
     /\ tag = <<"n", "o", "n", "e">> => tagMph.mph = -1
     /\ (Squeezed = <<>> \/ Head(Squeezed) \notin {"0", "1", "2", "3", "4", "5", "6", "7", "8", "9"})
           => tagMph.mph = -1
     /\ (Squeezed # <<>> /\ Head(Squeezed) \in {"0", "3", "5"}) =>
           tagMph.mph = parseDigits(Squeezed, 0)
                       * (IF \E j \in 1..(Len(tag) - 2) :
                               <<tag[j], tag[j + 1], tag[j + 2]>>
                                 \in {<<"m", "p", "h">>, <<"M", "P", "H">>}
                          THEN 1000000 ELSE 621371)

C25_Witness ==
  tag = <<"5", "0">> /\ tagMph = [mph |-> 31068550]

\* C26: every position update replaces the last sample by the update's
\* longitude and timestamp, whichever speed branch ran; an update without a
\* direct speed whose elapsed time since the previous sample is not positive
\* leaves currentSpeedMph as it was; and a speed that is written is >= 0.
C26_SampleAndSpeed ==
  [][ positions' = positions + 1 =>
        /\ lastGeoSampleRef' = [lon |-> lastPos'.lon, t |-> lastPos'.t]
        /\ (/\ ~lastPos'.reading.has /\ lastGeoSampleRef # [null |-> TRUE]
            /\ lastPos'.t - lastGeoSampleRef.t <= 0) => currentSpeedMph' = currentSpeedMph
        /\ (lastPos'.reading.has \/ currentSpeedMph' # currentSpeedMph) => currentSpeedMph' >= 0 ]_vars

\* a fix without a direct speed, stamped a second before the previous sample:
\* the speed of 31.3 mph is kept and the sample is replaced
C26_Witness ==
  /\ positions = 2 /\ ~lastPos.reading.has /\ lastPos.t = 100000 - 1000
  /\ lastGeoSampleRef = [lon |-> 1, t |-> 100000 - 1000] /\ currentSpeedMph = 313

C26_WitnessFloor ==
  lastPos # [null |-> TRUE] /\ lastPos.reading = [has |-> TRUE, mmps |-> -1000] /\ currentSpeedMph = 0

\* C27: the failure of a live tick or of the analysis of an uploaded video or
\* image shows no error toast: error toasts come from a refused camera and
\* from a rejected upload only.
C27_OnlyPermissionAndValidationErrors ==
  /\ out.op \in {"liveFailed", "liveRetry", "uploadFailed"} => out.toast = "none"
  /\ out.toast \notin {"none", "uploaded", "success", "impairment"} =>
        out.toast \in {"cameraDenied", "rejected"}

\* C27, amended: a failed live tick is silent, a failed analysis of an
\* uploaded video or image shows the error toast "Failed to analyze ...", and
\* error toasts come from a refused camera, a rejected upload and a failed
\* upload analysis only; the error banner comes from a refused camera only.
C27_UploadFailureIsShown ==
  /\ out.op \in {"liveFailed", "liveRetry"} =>
        (out.toast = "none" /\ out.notif = "none" /\ ~out.audio)
  /\ out.op = "uploadFailed" => out.toast = "analysisFailed"
  /\ out.toast = "analysisFailed" => out.op = "uploadFailed"
  /\ out.toast = "cameraDenied" => out.op = "cameraDenied"
  /\ out.toast = "rejected" => out.op \in {"upload", "uploadStop"}
  /\ out.toast \in {"none", "uploaded", "success", "impairment",
                     "cameraDenied", "rejected", "analysisFailed"}
  /\ cameraError => \E i \in DOMAIN starts : starts[i].pc = "failed"

C27_Witness ==
  out.op = "uploadFailed" /\ out.toast = "analysisFailed" /\ uploadedImage /\ ~isAnalyzing

C27_WitnessLive ==
  out.op = "liveFailed" /\ out.toast = "none"

\* C28: an uploaded file that is oversized or neither video nor image is
\* rejected with a message at once: no uploaded media is set, no analysis is
\* started and no request is posted by the step, and nothing is scheduled.
C28_RejectedUpload ==
  [][ (/\ out'.op \in {"upload", "uploadStop"}
       /\ (out'.file.big \/ out'.file.type \notin {"video", "image"})) =>
        /\ out'.toast = "rejected"
        /\ ~uploadedVideo' /\ ~uploadedImage'
        /\ Len(analyses') = Len(analyses) /\ isAnalyzing' = isAnalyzing
        /\ out'.fetch = 0
        /\ \A k \in 1..Len(analyses') :
              (analyses'[k].pc = analyses[k].pc /\ analyses'[k].attempts = analyses[k].attempts) ]_vars

C28_Witness ==
  /\ out.op = "upload" /\ out.file = [type |-> "video", big |-> TRUE]
  /\ out.toast = "rejected" /\ ~uploadedVideo /\ analyses = <<>>

\* C29: whenever currentResult is non-null the banner text names its state
\* and the overlay is red for drunk, orange for sleepy, yellow for distracted
\* and absent for normal.
C29_DisplayKeyedToState ==
  currentResult # [null |-> TRUE] =>
     /\ getStateText(currentResult) =
          (CASE currentResult.state = "drunk" -> "DRUNK DETECTED"
             [] currentResult.state = "sleepy" -> "SLEEPY DETECTED"
             [] currentResult.state = "distracted" -> "DISTRACTED DETECTED"
             [] currentResult.state = "normal" -> "NORMAL")
     /\ getAlertStyle(currentResult) =
          (CASE currentResult.state = "drunk" -> "bg-red-500/30 border-red-600 border-4"
             [] currentResult.state = "sleepy" -> "bg-orange-500/30 border-orange-500 border-4"
             [] currentResult.state = "distracted" -> "bg-yellow-500/30 border-yellow-500 border-4"
             [] currentResult.state = "normal" -> "")

\* C29, amended: with a confidence of at least 30 the banner text names the
\* state and the overlay has the colour of the state; with a confidence
\* below 30 the banner reads NORMAL and there is no overlay, whatever the
\* state.
C29_DisplayKeyedToStateAndConfidence ==
  currentResult # [null |-> TRUE] =>
     IF currentResult.confidence >= 30
     THEN /\ getStateText(currentResult) =
               (CASE currentResult.state = "drunk" -> "DRUNK DETECTED"
                  [] currentResult.state = "sleepy" -> "SLEEPY DETECTED"
                  [] currentResult.state = "distracted" -> "DISTRACTED DETECTED"
                  [] currentResult.state = "normal" -> "NORMAL")
          /\ getAlertStyle(currentResult) =
               (CASE currentResult.state = "drunk" -> "bg-red-500/30 border-red-600 border-4"
                  [] currentResult.state = "sleepy" -> "bg-orange-500/30 border-orange-500 border-4"
                  [] currentResult.state = "distracted" -> "bg-yellow-500/30 border-yellow-500 border-4"
                  [] currentResult.state = "normal" -> "")
          /\ getStateColor(currentResult) =
               (CASE currentResult.state = "drunk" -> "text-red-600"
                  [] currentResult.state = "sleepy" -> "text-orange-600"
                  [] currentResult.state = "distracted" -> "text-yellow-600"
                  [] currentResult.state = "normal" -> "text-green-600")
     ELSE /\ getStateText(currentResult) = "NORMAL"
          /\ getAlertStyle(currentResult) = ""
          /\ getStateColor(currentResult) = "text-green-600"

C29_Witness ==
  /\ currentResult # [null |-> TRUE]
  /\ currentResult.state = "sleepy" /\ currentResult.confidence = 30
  /\ getAlertStyle(currentResult) = "bg-orange-500/30 border-orange-500 border-4"

\* a step in which startMonitoring is entered by start i
StartClicked(i) == starts[i].pc = "unused" /\ starts'[i].pc = "getUserMedia"

\* C30: timers and last-alert timestamp live for one session: the first
\* qualifying detection after the loop was armed gives an audio alert,
\* however recent the audio alert of the session before, and when
\* startMonitoring is entered no timer of an earlier start is still active.
C30_PerSessionLifecycle ==
  [][ /\ (/\ out'.op = "liveResult" /\ out'.toast = "impairment" /\ ~out'.stopped
          /\ isMonitoring /\ ~sessionAudio) => out'.audio
      /\ \A i \in DOMAIN starts :
           StartClicked(i) =>
             \A j \in DOMAIN starts :
               j # i => (starts'[j].warmup = 0 /\ starts'[j].interval = 0) ]_vars

C30_FirstDetectionAlerts ==
  [][ (/\ out'.op = "liveResult" /\ out'.toast = "impairment" /\ ~out'.stopped
       /\ isMonitoring /\ ~sessionAudio) => out'.audio ]_vars

C30_NoTimerSurvives ==
  [][ \A i \in DOMAIN starts :
        StartClicked(i) =>
          \A j \in DOMAIN starts :
            j # i => (starts'[j].warmup = 0 /\ starts'[j].interval = 0) ]_vars

\* C31: as the README documents, the real-time alerts (overlay, browser
\* notification, toast) are shown only for an impairment detected with
\* confidence >= 50; a detection with confidence below 50 produces no alert
\* on any channel and no overlay.
C31_AlertsOnlyAtFifty ==
  /\ AlertSent => currentResult.confidence >= 50
  /\ (currentResult # Null /\ getAlertStyle(currentResult) # "")
       => currentResult.confidence >= 50

\* C32: getDetections returns the empty list to a signed-out caller and, to a
\* signed-in caller, only rows whose userId is the caller's, at most 20 of
\* them, newest first: the newest rows the caller has saved; and a
\* saveDetection by another user never changes what a user is shown.
C32_OwnDetectionsOnly ==
  [][ /\ listed' # listed =>
           LET rows == listed'.rows
               own  == {i \in 1..Len(detections) : detections[i].userId = listed'.caller}
           IN  /\ listed'.caller = "null" => rows = <<>>
               /\ Len(rows) <= 20
               /\ \A i \in 1..Len(rows) : rows[i].userId = listed'.caller
               /\ \A i \in 1..Len(rows) - 1 : rows[i]._creationTime > rows[i+1]._creationTime
               /\ listed'.caller # "null" =>
                    /\ Len(rows) = IF Cardinality(own) < 20 THEN Cardinality(own) ELSE 20
                    /\ \A i \in own :
                         (\E j \in 1..Len(rows) : rows[j]._creationTime = i)
                         \/ Cardinality({k \in own : k > i}) >= 20
      /\ \A u \in {"u1", "u2"} :
           (Len(detections') = Len(detections) + 1
              /\ detections'[Len(detections')].userId # u)
             => getDetections(u, detections') = getDetections(u, detections) ]_vars

C32_Witness ==
  /\ listed.caller = "u1" /\ Len(listed.rows) = 20
  /\ Cardinality({i \in 1..Len(detections) : detections[i].userId = "u1"}) = 21
  /\ \E i \in 1..Len(detections) :
        detections[i].userId = "u2" /\ i < listed.rows[1]._creationTime

\* C33: at most one recurring analysis timer exists at any time, and after
\* stopMonitoring no recurring timer created by an earlier startMonitoring is
\* still active, also when startMonitoring is invoked a second time before
\* the camera request of the first invocation has resolved.
C33_OneRecurringTimer ==
  /\ Cardinality({i \in DOMAIN starts : starts[i].interval # 0}) <= 1
  /\ out.op = "stop" => \A i \in DOMAIN starts : starts[i].interval = 0

\* C34: after stopMonitoring has returned the stopped session initiates no
\* new vision-API request: whether the stop came within the 3 s warm-up
\* window or was followed by a quick restart, the warm-up timeout of a
\* session whose stream stopMonitoring has stopped never starts an analysis.
C34_StoppedSessionIssuesNothing ==
  [][ \A i \in DOMAIN starts :
        (/\ starts[i].pc = "armed" /\ ~starts[i].live
         /\ starts[i].warmup # 0 /\ starts'[i].warmup = 0)
          => (analyses' = analyses /\ out'.fetch = 0) ]_vars

\* C35: every invocation of analyzeCurrentFrame, analyzeUploadedVideo or
\* analyzeUploadedImage that sets isAnalyzing sets it back to false on every
\* path, provided each awaited external call settles; and isAnalyzing is
\* never false while a vision-API request issued by one of them is still
\* outstanding.
C35_AnalyzingWhileOutstanding ==
  (\E k \in 1..Len(analyses) : analyses[k].pc = "fetch") => isAnalyzing

\* C36: once speedLimitMph is known it never returns to null: a later lookup
\* that finds no tagged way, only "none", unparseable or zero maxspeed
\* values, or that fails, leaves the limit known before in place.
C36_LimitNeverForgotten ==
  [][ /\ speedLimitMph # -1 => speedLimitMph' # -1
      /\ speedOut'.op \in {"limitNone", "limitFailed"} => speedLimitMph' = speedLimitMph
    ]_vars

\* a second lookup found no usable maxspeed after the first had found 50 km/h
C36_Witness ==
  speedOut.op = "limitNone" /\ speedLimitMph = 31 /\ positions >= 2

\* C37: for every decodable payload, also one whose flag fields are present
\* but are not booleans (strings, numbers, null), isDrunk, isSleepy and
\* isDistracted of the DetectionResult are booleans, and state is derived
\* from them by the precedence drunk, sleepy, distracted, normal.
C37_FlagsAreBooleans ==
  returned # Pending =>
     /\ returned.isDrunk.type = "boolean"
     /\ returned.isSleepy.type = "boolean"
     /\ returned.isDistracted.type = "boolean"
     /\ returned.state = IF returned.isDrunk.truthy THEN "drunk"
                         ELSE IF returned.isSleepy.truthy THEN "sleepy"
                         ELSE IF returned.isDistracted.truthy THEN "distracted"
                         ELSE "normal"

\* C38: a rejected upload leaves the orchestrator as it was: when
\* handleFileUpload rejects a file (oversized or of an unsupported type),
\* isMonitoring, the camera stream, the recurring timer, currentResult and
\* the media uploaded before are the same after the call as before it.
C38_RejectedUploadChangesNothing ==
  [][ (out'.op \in {"upload", "uploadStop"} /\ out'.toast = "rejected") =>
        /\ isMonitoring' = isMonitoring
        /\ srcObject' = srcObject /\ starts' = starts
        /\ intervalRef' = intervalRef
        /\ currentResult' = currentResult
        /\ uploadedVideo' = uploadedVideo /\ uploadedImage' = uploadedImage ]_vars

====
